---- MODULE Spec2Model ----
(***************************************************************************)
(* Model of release-pending: the caching async iterable, the paginated     *)
(* pull-request generator, the release lookups and performAction.          *)
(***************************************************************************)
EXTENDS Integers, Sequences, FiniteSets, TLC

(***************************************************************************)
(* Bounds of the model.                                                    *)
(***************************************************************************)
\* longest item sequence of the producer wrapped by a CachingAsyncIterable
MaxItems == 3
\* number of iteration cursors that can be live at the same time
NumCursors == 2

\* longest pull-request listing the forge holds for one query
MaxPRs == 3
\* latest timestamp of the model's clock (timestamps are 1..MaxTime)
MaxTime == 3
\* page size of the listings (the perPage parameter of the fetchers)
PerPage == 2
\* longest release listing the forge holds when performAction runs
MaxReleases == 3
\* most pull requests merged into one branch when performAction runs
MaxMerged == 2

\* MAX_PAGES: a release search gives up after this many pages worth of items
MAX_PAGES == 5

Cursors == 1..NumCursors

\* `Date | null`: the absent timestamp
NoDate == 0
Times == 1..MaxTime

VARIABLES
  \* ---- CachingAsyncIterable and its source ----
  srcItems,         \* the items the wrapped one-shot producer will yield
  srcPos,           \* how many of them the producer has handed out
  srcDone,          \* the producer has reported completion
  cache,            \* CachingAsyncIterable.cache
  sourceExhausted,  \* CachingAsyncIterable.sourceExhausted
  reqQ,             \* cursors whose source.next() call is queued at the producer
  resumeQ,          \* settled source.next() results whose awaiting cursor has not resumed yet
  cur,              \* per cursor: position in the generator body, array index, items yielded
  pulls,            \* number of source.next() results carrying an item that a cursor received
  \* ---- pull-request generator and its consumer ----
  prListing,        \* the forge's listing for the query, in the forge's order (UPDATED_AT DESC)
  gen,              \* frame of createPullRequestsGenerator: parameters, cursor, hasNextPage, page
  collected,        \* result array of collectAsync
  \* ---- the forge's request log ----
  requests,         \* every request sent to the forge, in order
  \* ---- performAction ----
  ctx,              \* the Context of the invocation
  defaultTag,       \* the defaultTag argument
  path,             \* which of the two functions performAction dispatched to
  target,           \* the branch whose releases and incoming pull requests are looked up
  relIdx,           \* the running lookup's position in the Releases handle
  relCount,         \* `count` of Releases.find
  relPages,         \* release-listing pages the handle's generator has received
  lastDraft,        \* result of findLastDraft
  lastRelease,      \* result of findLast
  lastVersion,      \* parsed tag of lastRelease
  featurePR,        \* first outgoing pull request of a feature branch
  pending,          \* locals of performUpsert kept across the release-notes request;
                    \* for a function applied on its own, the call and its arguments
  result,           \* the value performAction resolves to; for a function applied on
                    \* its own, the value it returned
  thrown,           \* the error performAction rejects with
  \* ---- the forge, and invocations of performAction sharing it ----
  forgeFault,       \* the cursor at which the forge answers with an empty page that
                    \* reports hasNextPage = true, if it does so at all
  forgeReleases,    \* the releases the forge holds, in the order it lists them
  inv,              \* per invocation on the shared forge: position, locals, result
  \* ---- control ----
  pc                \* position of the running invocation

cacheVars == <<srcItems, srcPos, srcDone, cache, sourceExhausted>>
cursorVars == <<reqQ, resumeQ, cur, pulls>>
prVars == <<prListing, gen, collected>>
orchVars == <<ctx, defaultTag, path, target, relIdx, relCount, relPages,
              lastDraft, lastRelease, lastVersion, featurePR, pending, result, thrown>>
forgeVars == <<forgeFault, forgeReleases, inv>>
nonCacheVars == <<prListing, gen, collected, requests, pc, orchVars, forgeVars>>

vars == <<srcItems, srcPos, srcDone, cache, sourceExhausted, reqQ, resumeQ, cur, pulls,
          prListing, gen, collected, requests, pc, orchVars, forgeVars>>

(***************************************************************************)
(* Generic helpers.                                                        *)
(***************************************************************************)
Range(s) == {s[i] : i \in DOMAIN s}

IsPrefix(s, t) == Len(s) <= Len(t) /\ s = SubSeq(t, 1, Len(s))

NoDuplicates(s) == \A i, j \in DOMAIN s : s[i] = s[j] => i = j

Min(a, b) == IF a <= b THEN a ELSE b

\* `T | null`: null is the empty sequence, a value x is <<x>>
None == <<>>
Some(x) == <<x>>

\* no pull-request generator exists
IdleGen == [st |-> "none"]

\* no forge shared by invocations of performAction is modelled
NoForge == forgeFault = <<>> /\ forgeReleases = <<>> /\ inv = <<>>

\* no invocation of performAction is running
NoInvocation ==
  /\ ctx = None /\ defaultTag = None /\ path = "none" /\ target = None
  /\ relIdx = 0 /\ relCount = 0 /\ relPages = 0
  /\ lastDraft = None /\ lastRelease = None /\ lastVersion = None
  /\ featurePR = None /\ pending = None /\ result = None /\ thrown = None

(***************************************************************************)
(* Text: strings the program inspects are sequences of characters.         *)
(***************************************************************************)
Lower == {"a","b","c","d","e","f","g","h","i","j","k","l","m",
          "n","o","p","q","r","s","t","u","v","w","x","y","z"}
Upper == {"A","B","C","D","E","F","G","H","I","J","K","L","M",
          "N","O","P","Q","R","S","T","U","V","W","X","Y","Z"}
Digit == {"0","1","2","3","4","5","6","7","8","9"}
Whitespace == {" ", "\t", "\n", "\r"}

RECURSIVE TrimLeft(_)
TrimLeft(s) == IF s # <<>> /\ Head(s) \in Whitespace THEN TrimLeft(Tail(s)) ELSE s

RECURSIVE TrimRight(_)
TrimRight(s) ==
  IF s # <<>> /\ s[Len(s)] \in Whitespace THEN TrimRight(SubSeq(s, 1, Len(s) - 1)) ELSE s

\* String.prototype.trim
Trim(s) == TrimRight(TrimLeft(s))

\* String.prototype.includes
Includes(s, pat) ==
  \E i \in 1..(Len(s) - Len(pat) + 1) : SubSeq(s, i, i + Len(pat) - 1) = pat

\* index of the first occurrence of ch in s at or after position from, or 0
RECURSIVE IndexFrom(_, _, _)
IndexFrom(s, ch, from) ==
  IF from > Len(s) THEN 0
  ELSE IF s[from] = ch THEN from
  ELSE IndexFrom(s, ch, from + 1)

\* message.split("\n")[0]
FirstLine(s) ==
  LET nl == IndexFrom(s, "\n", 1) IN IF nl = 0 THEN s ELSE SubSeq(s, 1, nl - 1)

(***************************************************************************)
(* Conventional commits: messageImpact, maxImpact, inferImpactFromPRs      *)
(***************************************************************************)
BreakingChangeSpace ==
  <<"B","R","E","A","K","I","N","G"," ","C","H","A","N","G","E",":">>
BreakingChangeDash ==
  <<"B","R","E","A","K","I","N","G","-","C","H","A","N","G","E",":">>

\* length of the longest run of lowercase letters that starts s: ([a-z]+)
RECURSIVE LowerRun(_)
LowerRun(s) == IF s # <<>> /\ Head(s) \in Lower THEN 1 + LowerRun(Tail(s)) ELSE 0

\* the match of /^([a-z]+)(\([^)]*\))?(!)?:\s*\S+/ against line:
\* [matched, type, bang]
ConventionalMatch(line) ==
  LET n == LowerRun(line)
      \* position after the optional scope, or 0 when "(" has no closing ")"
      afterScope ==
        IF n < Len(line) /\ line[n + 1] = "("
          THEN LET close == IndexFrom(line, ")", n + 2) IN
                 IF close = 0 THEN 0 ELSE close + 1
          ELSE n + 1
      bang == afterScope # 0 /\ afterScope <= Len(line) /\ line[afterScope] = "!"
      colon == IF bang THEN afterScope + 1 ELSE afterScope
      ok == /\ n >= 1
            /\ afterScope # 0
            /\ colon <= Len(line)
            /\ line[colon] = ":"
            /\ \E k \in (colon + 1)..Len(line) : line[k] \notin Whitespace
  IN [matched |-> ok, type |-> SubSeq(line, 1, n), bang |-> ok /\ bang]

\* messageImpact
MessageImpactStructureFirst(message) ==
  IF Trim(message) = <<>> THEN "none"
  ELSE LET match == ConventionalMatch(Trim(FirstLine(message))) IN
    IF ~match.matched THEN "none"
    ELSE IF \/ match.bang
            \/ Includes(message, BreakingChangeSpace)
            \/ Includes(message, BreakingChangeDash)
      THEN "major"
    ELSE IF match.type = <<"f","e","a","t">> THEN "minor"
    ELSE IF match.type = <<"f","i","x">> THEN "patch"
    ELSE "none"
MessageImpact(message) ==
  IF Trim(message) = <<>> THEN "none"
  ELSE IF Includes(message, BreakingChangeSpace) \/ Includes(message, BreakingChangeDash)
    THEN "major"
  ELSE LET match == ConventionalMatch(Trim(FirstLine(message))) IN
    IF ~match.matched THEN "none"
    ELSE IF match.bang THEN "major"
    ELSE IF match.type = <<"f","e","a","t">> THEN "minor"
    ELSE IF match.type = <<"f","i","x">> THEN "patch"
    ELSE "none"

\* the loop of maxImpact over impacts[i..], with the running maximum
RECURSIVE MaxImpactFrom(_, _, _)
MaxImpactFrom(impacts, i, currentMax) ==
  IF i > Len(impacts) THEN currentMax
  ELSE IF impacts[i] = "major" THEN "major"
  ELSE IF impacts[i] = "minor" /\ currentMax \in {"none", "patch"}
    THEN MaxImpactFrom(impacts, i + 1, "minor")
  ELSE IF impacts[i] = "patch" /\ currentMax = "none"
    THEN MaxImpactFrom(impacts, i + 1, "patch")
  ELSE MaxImpactFrom(impacts, i + 1, currentMax)

\* maxImpact
MaxImpactFirst(impacts) == IF Len(impacts) = 0 THEN "none" ELSE impacts[1]
MaxImpact(impacts) ==
  IF Len(impacts) = 0 THEN "none" ELSE MaxImpactFrom(impacts, 1, "none")

\* inferImpactFromPRs
InferImpactFromPRs(prs) == MaxImpact([i \in DOMAIN prs |-> MessageImpact(prs[i].title)])

(***************************************************************************)
(* Versions: parse, Version.bump, withPrerelease, withBuild, tag           *)
(***************************************************************************)
\* A version string is kept by its parts: "v1.2.3-rc.1+7" is
\* [prefix |-> "v", parts |-> <<1, 2, 3>>, pre |-> <<"rc", "1">>, build |-> <<"7">>]
VersionString(prefix, parts, pre, build) ==
  [prefix |-> prefix, parts |-> parts, pre |-> pre, build |-> build]

\* strict semver: exactly major.minor.patch
ParseOk(text) == Len(text.parts) = 3

\* parse: the Version of a version string (the leading "v" is dropped)
ParseVersion(text) == [base |-> text.parts, prerelease |-> text.pre, build |-> text.build]

\* semver's inc on a bare major.minor.patch
Inc(base, change) ==
  IF change = "major" THEN <<base[1] + 1, 0, 0>>
  ELSE IF change = "minor" THEN <<base[1], base[2] + 1, 0>>
  ELSE <<base[1], base[2], base[3] + 1>>

\* Version.bump
BumpAlways(version, change) == [version EXCEPT !.base = Inc(version.base, "patch")]
Bump(version, change) ==
  IF change = "none" THEN version ELSE [version EXCEPT !.base = Inc(version.base, change)]

\* Version.withPrerelease, Version.withBuild
WithPrerelease(version, prerelease) == [version EXCEPT !.prerelease = prerelease]
WithBuild(version, build) == [version EXCEPT !.build = build]

\* Version.tag: `v${this.base}`
VersionTagFull(version) ==
  VersionString("v", version.base, version.prerelease, version.build)
VersionTag(version) == VersionString("v", version.base, <<>>, <<>>)


(***************************************************************************)
(* sanitiseBranchPrerelease: branch name to prerelease components          *)
(***************************************************************************)
PrereleaseLegal == Digit \cup Lower \cup Upper \cup {".", "-"}

\* every run of characters outside [0-9A-Za-z.-] becomes one "-"
RECURSIVE ReplaceIllegalRuns(_, _)
ReplaceIllegalRuns(s, inRun) ==
  IF s = <<>> THEN <<>>
  ELSE IF Head(s) \in PrereleaseLegal THEN <<Head(s)>> \o ReplaceIllegalRuns(Tail(s), FALSE)
  ELSE IF inRun THEN ReplaceIllegalRuns(Tail(s), TRUE)
  ELSE <<"-">> \o ReplaceIllegalRuns(Tail(s), TRUE)

\* repeated ch collapse to one ch
RECURSIVE Collapse(_, _)
Collapse(s, ch) ==
  IF Len(s) < 2 THEN s
  ELSE IF s[1] = ch /\ s[2] = ch THEN Collapse(Tail(s), ch)
  ELSE <<s[1]>> \o Collapse(Tail(s), ch)

\* String.prototype.split on one character
RECURSIVE Split(_, _)
Split(s, ch) ==
  LET at == IndexFrom(s, ch, 1) IN
    IF at = 0 THEN <<s>>
    ELSE <<SubSeq(s, 1, at - 1)>> \o Split(SubSeq(s, at + 1, Len(s)), ch)

\* leading zeros are stripped from a numeric segment, a lone 0 is kept
RECURSIVE StripLeadingZeros(_)
StripLeadingZeros(seg) ==
  IF Len(seg) > 1 /\ seg[1] = "0" /\ \A i \in DOMAIN seg : seg[i] \in Digit
    THEN StripLeadingZeros(Tail(seg))
    ELSE seg

RECURSIVE StripDashes(_)
StripDashes(seg) ==
  IF seg # <<>> /\ Head(seg) = "-" THEN StripDashes(Tail(seg))
  ELSE IF seg # <<>> /\ seg[Len(seg)] = "-" THEN StripDashes(SubSeq(seg, 1, Len(seg) - 1))
  ELSE seg

SanitiseBranchPrerelease(branch) ==
  LET truncated == SubSeq(branch, 1, Min(50, Len(branch)))
      dotted == [i \in DOMAIN truncated |-> IF truncated[i] = "/" THEN "." ELSE truncated[i]]
      cleaned == Collapse(Collapse(ReplaceIllegalRuns(dotted, FALSE), "."), "-")
      segments == Split(cleaned, ".")
      stripped == [i \in DOMAIN segments |-> StripDashes(StripLeadingZeros(segments[i]))]
      kept == SelectSeq(stripped, LAMBDA seg : seg # <<>>)
  IN <<<<"b","r","a","n","c","h">>>> \o SubSeq(kept, 1, Min(10, Len(kept)))


(***************************************************************************)
(* CachingAsyncIterable                                                    *)
(***************************************************************************)
\* a cursor as returned by [Symbol.asyncIterator](): the body has not run yet
FreshCursor == [st |-> "replay", idx |-> 0, out |-> <<>>]

\* this.cache.push(result.value)
CachePushFront(c, v) == <<v>> \o c
CachePush(c, v) == Append(c, v)

\* for (const item of this.cache): the array iterator reads the live array by index
ReplayNothing(c, i) == FALSE
ReplayHasItem(c, i) == i < Len(c)

\* if (this.sourceExhausted) return, and the test of while (!this.sourceExhausted)
SkipsPullNever(exhausted) == FALSE
SkipsPull(exhausted) == exhausted

\* what `await this.source.next()` gives the cursor: a rejection is thrown out
\* of the generator body before `if (result.done)` is reached
MarksExhaustedOnError(r) == r.done \/ r.failed
MarksExhausted(r) == ~r.failed /\ r.done

\* the producer is an async generator: it has completed by throwing, with
\* items it never handed out
SourceFailed == srcDone /\ srcPos < Len(srcItems)

\* the cursor (suspended at a yield, or not started) is resumed by the consumer's next()
CursorNext(c) ==
  /\ cur[c].st \in {"replay", "pull"}
  /\ IF cur[c].st = "replay" /\ ReplayHasItem(cache, cur[c].idx)
       THEN \* yield item (replay of the cache)
            /\ cur' = [cur EXCEPT ![c].idx = @ + 1,
                                  ![c].out = Append(@, cache[cur[c].idx + 1])]
            /\ UNCHANGED reqQ
       ELSE IF SkipsPull(sourceExhausted)
         THEN \* if (this.sourceExhausted) return / while (!this.sourceExhausted) falls through
              /\ cur' = [cur EXCEPT ![c].st = "done"]
              /\ UNCHANGED reqQ
         ELSE \* await this.source.next()
              /\ cur' = [cur EXCEPT ![c].st = "await"]
              /\ reqQ' = Append(reqQ, c)
  /\ UNCHANGED <<srcItems, srcPos, srcDone, cache, sourceExhausted, resumeQ, pulls>>
  /\ UNCHANGED nonCacheVars

\* the producer (an async generator) settles its oldest queued next() request
SourceResolve ==
  /\ reqQ # <<>>
  /\ IF ~srcDone /\ srcPos < Len(srcItems)
       THEN /\ srcPos' = srcPos + 1
            /\ resumeQ' = Append(resumeQ, [c |-> Head(reqQ), done |-> FALSE, failed |-> FALSE,
                                           value |-> srcItems[srcPos + 1]])
            /\ UNCHANGED srcDone
       ELSE \* a generator that has returned or thrown answers { done: true }
            /\ srcDone' = TRUE
            /\ resumeQ' = Append(resumeQ, [c |-> Head(reqQ), done |-> TRUE, failed |-> FALSE,
                                           value |-> 0])
            /\ UNCHANGED srcPos
  /\ reqQ' = Tail(reqQ)
  /\ UNCHANGED <<srcItems, cache, sourceExhausted, cur, pulls>>
  /\ UNCHANGED nonCacheVars

\* the producer's oldest queued next() request rejects: the page request the
\* generator awaits for its next item fails, the generator throws and is finished
SourceFail ==
  /\ reqQ # <<>>
  /\ ~srcDone /\ srcPos < Len(srcItems)
  /\ srcDone' = TRUE
  /\ resumeQ' = Append(resumeQ, [c |-> Head(reqQ), done |-> FALSE, failed |-> TRUE, value |-> 0])
  /\ reqQ' = Tail(reqQ)
  /\ UNCHANGED <<srcItems, srcPos, cache, sourceExhausted, cur, pulls>>
  /\ UNCHANGED nonCacheVars

\* the awaiting cursor continues after `const result = await this.source.next()`
CursorResume ==
  /\ resumeQ # <<>>
  /\ LET r == Head(resumeQ) IN
       /\ sourceExhausted' = (sourceExhausted \/ MarksExhausted(r))
       /\ IF r.failed
            THEN \* the await throws: the error leaves the generator body
                 /\ cur' = [cur EXCEPT ![r.c].st = "failed"]
                 /\ UNCHANGED <<cache, pulls>>
            ELSE IF r.done
              THEN /\ cur' = [cur EXCEPT ![r.c].st = "done"]
                   /\ UNCHANGED <<cache, pulls>>
              ELSE /\ cache' = CachePush(cache, r.value)
                   /\ pulls' = pulls + 1
                   /\ cur' = [cur EXCEPT ![r.c].st = "pull", ![r.c].out = Append(@, r.value)]
  /\ resumeQ' = Tail(resumeQ)
  /\ UNCHANGED <<srcItems, srcPos, srcDone, reqQ>>
  /\ UNCHANGED nonCacheVars

\* the consumer leaves its for-await loop early: return() on the suspended cursor
CursorStopClosesSource(c) ==
  /\ cur[c].st \in {"replay", "pull"}
  /\ cur' = [cur EXCEPT ![c].st = "stopped"]
  /\ srcDone' = TRUE
  /\ UNCHANGED <<srcItems, srcPos, cache, sourceExhausted, reqQ, resumeQ, pulls>>
  /\ UNCHANGED nonCacheVars
CursorStop(c) ==
  /\ cur[c].st \in {"replay", "pull"}
  /\ cur' = [cur EXCEPT ![c].st = "stopped"]
  /\ UNCHANGED <<srcItems, srcPos, srcDone, cache, sourceExhausted, reqQ, resumeQ, pulls>>
  /\ UNCHANGED nonCacheVars

\* a new iteration is started: [Symbol.asyncIterator]() gives a fresh cursor
CursorCreate(c) ==
  /\ cur[c].st \in {"done", "stopped", "failed"}
  /\ cur' = [cur EXCEPT ![c] = FreshCursor]
  /\ UNCHANGED <<srcItems, srcPos, srcDone, cache, sourceExhausted, reqQ, resumeQ, pulls>>
  /\ UNCHANGED nonCacheVars

InitCache ==
  /\ NoForge
  /\ srcItems \in {[i \in 1..n |-> i] : n \in 0..MaxItems}
  /\ srcPos = 0
  /\ srcDone = FALSE
  /\ cache = <<>>
  /\ sourceExhausted = FALSE
  /\ reqQ = <<>>
  /\ resumeQ = <<>>
  /\ cur = [c \in Cursors |-> FreshCursor]
  /\ pulls = 0
  /\ prListing = <<>> /\ gen = IdleGen /\ collected = <<>>
  /\ requests = <<>>
  /\ NoInvocation
  /\ pc = "idle"

NextCache ==
  \/ \E c \in Cursors : CursorNext(c)
  \/ SourceResolve
  \/ CursorResume
  \/ \E c \in Cursors : CursorStop(c)
  \/ \E c \in Cursors : CursorCreate(c)

SpecCache == InitCache /\ [][NextCache]_vars

\* the same iterable over a producer whose page requests can fail
NextFail ==
  \/ NextCache
  \/ SourceFail

SpecFail == InitCache /\ [][NextFail]_vars

\* sequential use: a cursor is advanced or abandoned only while no other
\* iteration is under way
Idle(c) == cur[c].st \in {"done", "stopped", "failed"} \/ cur[c] = FreshCursor
OthersIdle(c) == \A d \in Cursors \ {c} : Idle(d)

SeqCursorNext(c) == OthersIdle(c) /\ CursorNext(c)
SeqCursorStop(c) == OthersIdle(c) /\ CursorStop(c)

NextSeq ==
  \/ \E c \in Cursors : SeqCursorNext(c)
  \/ SourceResolve
  \/ CursorResume
  \/ \E c \in Cursors : SeqCursorStop(c)
  \/ \E c \in Cursors : CursorCreate(c)

SpecSeq == InitCache /\ [][NextSeq]_vars

(***************************************************************************)
(* Pull requests: fetchPullRequests, createPullRequestsGenerator, collect  *)
(***************************************************************************)
\* mapPullRequest: the PullRequest built from a GraphQL node
MapPullRequest(node) ==
  [title |-> node.title,
   number |-> node.number,
   baseRefName |-> node.baseRefName,
   state |-> node.state,
   mergedAt |-> IF node.state = "MERGED" /\ node.mergedAt # NoDate
                  THEN node.mergedAt ELSE NoDate]

\* the early-stop test of the generator's page loop
StopsAtNever(pr, since) == FALSE
StopsAt(pr, since) ==
  pr.mergedAt # NoDate /\ since # NoDate /\ pr.mergedAt < since

\* the forge's answer to the query with `first: perPage, after: cursor`
ForgePage(listing, cursor) ==
  LET last == Min(cursor + PerPage, Len(listing)) IN
    [nodes |-> SubSeq(listing, cursor + 1, last),
     hasNextPage |-> last < Len(listing),
     endCursor |-> last]

\* fetchPullRequests: the generator frame created for the given parameters
NewGen(type, branch, since) ==
  [st |-> "request",
   type |-> type,
   baseRefName |-> IF type = "incoming" THEN <<branch>> ELSE <<>>,
   headRefName |-> IF type = "incoming" THEN <<>> ELSE <<branch>>,
   state |-> IF type = "incoming" THEN "MERGED" ELSE "OPEN",
   mergedSince |-> IF type = "incoming" THEN since ELSE NoDate,
   cursor |-> 0, hasNextPage |-> TRUE,
   page |-> <<>>, pageHasNext |-> FALSE, pageEnd |-> 0, i |-> 0]

GraphqlRequest(g) ==
  [kind |-> "graphql", baseRefName |-> g.baseRefName, headRefName |-> g.headRefName,
   state |-> g.state, cursor |-> g.cursor]

\* while (hasNextPage) { const response = await context.octokit.graphql(...)
PRFetchPage ==
  /\ pc = "collect"
  /\ gen.st = "request"
  /\ LET response == ForgePage(prListing, gen.cursor) IN
       gen' = [gen EXCEPT !.st = "page", !.page = response.nodes, !.i = 0,
                          !.pageHasNext = response.hasNextPage,
                          !.pageEnd = response.endCursor]
  /\ requests' = Append(requests, GraphqlRequest(gen))
  /\ UNCHANGED <<prListing, collected, pc>>
  /\ UNCHANGED <<cacheVars, cursorVars, forgeVars, orchVars>>

\* the statements after the for loop over the page: the generator requests the
\* next page or returns
AfterPageUntilEmpty(g, hasNextPage) ==
  [g EXCEPT !.hasNextPage = hasNextPage,
            !.cursor = g.pageEnd,
            !.st = IF ~hasNextPage \/ Len(g.page) = 0 THEN "done" ELSE "request"]
AfterPage(g, hasNextPage) ==
  LET h == hasNextPage /\ g.pageHasNext IN
    [g EXCEPT !.hasNextPage = h,
              !.cursor = g.pageEnd,
              !.st = IF ~h \/ Len(g.page) = 0 THEN "done" ELSE "request"]

\* for (const pr of pulls) { ... yield pullRequest }: one item of the page,
\* handed to collectAsync, or the early stop
PRNextItem ==
  /\ pc = "collect"
  /\ gen.st = "page"
  /\ gen.i < Len(gen.page)
  /\ LET pullRequest == MapPullRequest(gen.page[gen.i + 1]) IN
       IF StopsAt(pullRequest, gen.mergedSince)
         THEN /\ gen' = AfterPage(gen, FALSE)
              /\ UNCHANGED collected
         ELSE /\ gen' = [gen EXCEPT !.i = @ + 1]
              /\ collected' = Append(collected, pullRequest)
  /\ pc' = IF gen'.st = "done" THEN "collected" ELSE pc
  /\ UNCHANGED <<prListing, requests>>
  /\ UNCHANGED <<cacheVars, cursorVars, forgeVars, orchVars>>

\* the page is used up
PREndPage ==
  /\ pc = "collect"
  /\ gen.st = "page"
  /\ gen.i = Len(gen.page)
  /\ gen' = AfterPage(gen, gen.hasNextPage)
  /\ pc' = IF gen'.st = "done" THEN "collected" ELSE pc
  /\ UNCHANGED <<prListing, collected, requests>>
  /\ UNCHANGED <<cacheVars, cursorVars, forgeVars, orchVars>>

\* the listings the forge can hold for a query on pull requests: ordered by
\* UPDATED_AT descending, a merged pull request updated no earlier than merged
PRNode(n, t, st, m, u) ==
  [number |-> n, title |-> t, baseRefName |-> "main", state |-> st,
   mergedAt |-> m, updatedAt |-> u]

UpdatedDescending(l) == \A i \in 1..(Len(l) - 1) : l[i].updatedAt >= l[i + 1].updatedAt

MergedStamps == {mu \in Times \X Times : mu[1] <= mu[2]}

MergedListings ==
  {l \in UNION {[1..n -> MergedStamps] : n \in 0..MaxPRs} :
     \A i \in 1..(Len(l) - 1) : l[i][2] >= l[i + 1][2]}

\* a listed node without a merge timestamp
UnmergedStamps == {<<NoDate, u>> : u \in Times}

\* listings in which nodes without a merge timestamp stand among merged ones
StampListings ==
  {l \in UNION {[1..n -> MergedStamps \cup UnmergedStamps] : n \in 0..MaxPRs} :
     \A i \in 1..(Len(l) - 1) : l[i][2] >= l[i + 1][2]}

InitPR ==
  /\ NoForge
  /\ srcItems = <<>> /\ srcPos = 0 /\ srcDone = FALSE
  /\ cache = <<>> /\ sourceExhausted = FALSE
  /\ reqQ = <<>> /\ resumeQ = <<>> /\ pulls = 0
  /\ cur = [c \in Cursors |-> FreshCursor]
  /\ \/ \E l \in MergedListings \cup StampListings, since \in {NoDate} \cup Times :
          /\ prListing = [i \in DOMAIN l |-> PRNode(i, <<"x">>, "MERGED", l[i][1], l[i][2])]
          /\ gen = NewGen("incoming", "main", since)
     \/ \E n \in 0..MaxPRs :
          /\ prListing = [i \in 1..n |-> PRNode(i, <<"x">>, "OPEN", NoDate, MaxTime)]
          /\ gen = NewGen("outgoing", "feat", NoDate)
  /\ collected = <<>>
  /\ requests = <<>>
  /\ NoInvocation
  /\ pc = "collect"

NextPR ==
  \/ PRFetchPage
  \/ PRNextItem
  \/ PREndPage

SpecPR == InitPR /\ [][NextPR]_vars

(***************************************************************************)
(* Releases: fetchReleases, createReleasesGenerator, findLastDraft, find   *)
(***************************************************************************)
\* mapRelease: the Release built from the forge's release data
MapReleaseKeepTag(data) ==
  [id |-> data.id,
   tagName |-> Some(data.tag_name),
   targetCommitish |-> data.target_commitish,
   name |-> data.name,
   body |-> data.body,
   publishedAt |-> data.published_at,
   draft |-> data.draft,
   prerelease |-> data.prerelease]
MapRelease(data) ==
  [id |-> data.id,
   tagName |-> IF data.draft THEN None ELSE Some(data.tag_name),
   targetCommitish |-> data.target_commitish,
   name |-> data.name,
   body |-> data.body,
   publishedAt |-> data.published_at,
   draft |-> data.draft,
   prerelease |-> data.prerelease]

\* fetchReleases: maxReleases of the handle
MaxReleasesSearchedPlusOne == PerPage * MAX_PAGES + 1
MaxReleasesSearched == PerPage * MAX_PAGES

\* one step of a cursor at position idx of the handle's CachingAsyncIterable,
\* run by a single consumer: replay from the cache, else pull from the
\* generator (which requests the next listing page when it has used up the
\* pages it holds and the last response linked a next page), else end
ReleasesNext(idx) ==
  LET same == [item |-> None, cache |-> cache, exhausted |-> sourceExhausted,
               pos |-> srcPos, pages |-> relPages, reqs |-> requests]
      held == Min(relPages * PerPage, Len(srcItems))
      mustRequest == srcPos >= held /\ (relPages = 0 \/ held < Len(srcItems))
      pages == IF mustRequest THEN relPages + 1 ELSE relPages
      reqs == IF mustRequest
                THEN Append(requests, [kind |-> "listReleases", page |-> pages])
                ELSE requests
  IN IF ReplayHasItem(cache, idx) THEN [same EXCEPT !.item = Some(cache[idx + 1])]
     ELSE IF sourceExhausted THEN same
     ELSE IF srcPos < Len(srcItems)
       THEN LET value == MapRelease(srcItems[srcPos + 1]) IN
              [item |-> Some(value), cache |-> CachePush(cache, value),
               exhausted |-> FALSE, pos |-> srcPos + 1, pages |-> pages, reqs |-> reqs]
       ELSE [same EXCEPT !.exhausted = TRUE, !.pages = pages, !.reqs = reqs]

\* the predicate of findLastDraft
IsDraftForAnyBranch(release, targetCommitish) == release.draft /\ ~release.prerelease
IsDraftFor(release, targetCommitish) ==
  release.draft /\ ~release.prerelease /\ release.targetCommitish = targetCommitish

\* the predicate of findLast
IsPublishedOrPrereleaseFor(release, targetCommitish) ==
  ~release.draft /\ release.targetCommitish = targetCommitish
IsPublishedFor(release, targetCommitish) ==
  ~release.draft /\ ~release.prerelease /\ release.targetCommitish = targetCommitish

\* parse throws: the error and the string it names
InvalidVersion(versionString) ==
  Some([kind |-> "Invalid version", message |-> "Invalid version", request |-> 0,
        text |-> Some(versionString)])

\* lastRelease?.tagName ? parseVersion(lastRelease.tagName) : null throws
LastTagInvalidNever(release) == FALSE
LastTagInvalid(release) ==
  release # None /\ release[1].tagName # None /\ ~ParseOk(release[1].tagName[1])

\* inferNextVersion throws: the default tag is parsed only when there is no
\* last version
DefaultTagInvalid(lastVer, defTag) == lastVer = None /\ ~ParseOk(defTag)

\* mergedSince: lastRelease?.publishedAt ?? null
MergedSinceNever(release) == NoDate
MergedSince(release) == IF release # None THEN release[1].publishedAt ELSE NoDate

\* one iteration of the loop of findLastDraft on the cursor step n: whether
\* the lookup returns, and what
DraftLookupToTheEnd(n, targetCommitish) ==
  [decided |-> n.item = None \/ IsDraftFor(n.item[1], targetCommitish),
   found |-> IF n.item # None /\ IsDraftFor(n.item[1], targetCommitish) THEN n.item ELSE None]
DraftLookup(n, targetCommitish) ==
  [decided |-> \/ n.item = None
               \/ IsDraftFor(n.item[1], targetCommitish)
               \/ ~n.item[1].draft,
   found |-> IF n.item # None /\ IsDraftFor(n.item[1], targetCommitish) THEN n.item ELSE None]

\* one iteration of the loop of find, called by findLast, on the cursor step
\* n with `count` items rejected so far
FindLookup(n, count, targetCommitish) ==
  LET found == n.item # None /\ IsPublishedFor(n.item[1], targetCommitish) IN
    [decided |-> n.item = None \/ found \/ count + 1 >= MaxReleasesSearched,
     found |-> IF found THEN n.item ELSE None]

(***************************************************************************)
(* performAction                                                           *)
(***************************************************************************)
\* isReleaseBranch
IsReleaseBranchAlways(context) == TRUE
IsReleaseBranchNever(context) == FALSE
IsReleaseBranch(context) == context.branch \in context.releaseBranches

\* inferNextVersion
InferNextVersionBumpDefault(lastVer, increment, context, defTag, branchIfFeature) ==
  WithBuild(
    WithPrerelease(
      IF lastVer # None THEN Bump(lastVer[1], increment)
                        ELSE Bump(ParseVersion(defTag), increment),
      IF branchIfFeature # None /\ branchIfFeature[1] # <<>>
        THEN SanitiseBranchPrerelease(branchIfFeature[1]) ELSE <<>>),
    <<context.runNumber, context.runAttempt>>)
InferNextVersion(lastVer, increment, context, defTag, branchIfFeature) ==
  WithBuild(
    WithPrerelease(
      IF lastVer # None THEN Bump(lastVer[1], increment) ELSE ParseVersion(defTag),
      IF branchIfFeature # None /\ branchIfFeature[1] # <<>>
        THEN SanitiseBranchPrerelease(branchIfFeature[1]) ELSE <<>>),
    <<context.runNumber, context.runAttempt>>)

\* ---- what the forge can hold ----
BranchMain == <<"m","a","i","n">>
BranchRel == <<"r","e","l">>
BranchFeat == <<"f","e","a","t","/","x">>

Contexts ==
  {[branch |-> BranchMain, releaseBranches |-> {BranchMain}, runNumber |-> "7", runAttempt |-> "1"],
   [branch |-> BranchMain, releaseBranches |-> {BranchRel}, runNumber |-> "7", runAttempt |-> "1"],
   [branch |-> BranchFeat, releaseBranches |-> {BranchMain, BranchRel},
    runNumber |-> "7", runAttempt |-> "1"]}

\* "v0.1.0", and "v0.1", which parse rejects
DefaultTags == {VersionString("v", <<0, 1, 0>>, <<>>, <<>>),
                VersionString("v", <<0, 1>>, <<>>, <<>>)}

ReleaseData(parts, pre, targetCommitish, draft, prerelease, published) ==
  [tag_name |-> VersionString("v", parts, pre, <<>>),
   target_commitish |-> targetCommitish,
   name |-> VersionString("v", parts, pre, <<>>),
   body |-> "body",
   published_at |-> published,
   draft |-> draft,
   prerelease |-> prerelease]

ReleaseKinds ==
  {ReleaseData(<<0, 9, 0>>, <<>>, BranchMain, TRUE, FALSE, NoDate),
   ReleaseData(<<0, 9, 0>>, <<>>, BranchRel, TRUE, FALSE, NoDate),
   ReleaseData(<<0, 9, 0>>, <<>>, BranchMain, TRUE, TRUE, NoDate),
   ReleaseData(<<1, 2, 3>>, <<>>, BranchMain, FALSE, FALSE, 2),
   ReleaseData(<<2, 0, 0>>, <<>>, BranchRel, FALSE, FALSE, 1),
   ReleaseData(<<3, 0, 0>>, <<"rc">>, BranchMain, FALSE, TRUE, 2),
   \* a published release whose stored tag is "v1.2"
   ReleaseData(<<1, 2>>, <<>>, BranchMain, FALSE, FALSE, 2),
   \* a published release, not flagged prerelease, whose tag is "v1.0.0-rc"
   ReleaseData(<<1, 0, 0>>, <<"rc">>, BranchMain, FALSE, FALSE, 1)}

WithId(data, id) ==
  [id |-> id, tag_name |-> data.tag_name, target_commitish |-> data.target_commitish,
   name |-> data.name, body |-> data.body, published_at |-> data.published_at,
   draft |-> data.draft, prerelease |-> data.prerelease]

\* the release listings of the forge: the forge assigns the ids
ReleaseListings ==
  {[i \in DOMAIN l |-> WithId(l[i], i)] :
     l \in UNION {[1..n -> ReleaseKinds] : n \in 0..MaxReleases}}

TitleFeat == <<"f","e","a","t",":"," ","a">>
TitleFix == <<"f","i","x","(","s",")",":"," ","b">>
TitleChore == <<"c","h","o","r","e",":"," ","c">>
TitleBreaking == <<"f","e","a","t","!",":"," ","d">>
Titles == {TitleFeat, TitleFix, TitleChore, TitleBreaking}

\* the listings of pull requests merged into one branch, ordered by
\* UPDATED_AT descending (any sequence of merge times can be so ordered)
IncomingListings(base) ==
  {[i \in DOMAIN l |->
      [number |-> i, title |-> l[i][1], baseRefName |-> base, state |-> "MERGED",
       mergedAt |-> l[i][2], updatedAt |-> 2 + Len(l) - i]] :
     l \in UNION {[1..n -> Titles \X {1, 2}] : n \in 0..MaxMerged}}

\* the listings of open pull requests from one branch
OutgoingListings ==
  {<<>>} \cup
  {<<[number |-> 9, title |-> t, baseRefName |-> b, state |-> "OPEN",
      mergedAt |-> NoDate, updatedAt |-> 9]>> : t \in {TitleFeat, TitleChore},
                                                 b \in {BranchMain, BranchRel}}

\* fetchReleases(context): a fresh handle over the forge's listing
NewReleasesHandle ==
  /\ srcItems' \in ReleaseListings
  /\ srcPos' = 0 /\ srcDone' = FALSE /\ cache' = <<>> /\ sourceExhausted' = FALSE
  /\ relPages' = 0 /\ relIdx' = 0 /\ relCount' = 0

\* the handle is not used again
DropReleasesHandle ==
  /\ srcItems' = <<>>
  /\ srcPos' = 0 /\ srcDone' = FALSE /\ cache' = <<>> /\ sourceExhausted' = FALSE
  /\ relPages' = 0 /\ relIdx' = 0 /\ relCount' = 0

\* the handle after the cursor step n
HandleAfter(n) ==
  /\ cache' = n.cache /\ sourceExhausted' = n.exhausted /\ srcPos' = n.pos
  /\ relPages' = n.pages /\ requests' = n.reqs
  /\ UNCHANGED <<srcItems, srcDone>>

\* performAction: dispatch on isReleaseBranch
PerformAction ==
  /\ pc = "start"
  /\ IF IsReleaseBranch(ctx)
       THEN /\ path' = "release"
            /\ target' = Some(ctx.branch)
            /\ NewReleasesHandle
            /\ pc' = "findLastDraft"
       ELSE /\ path' = "feature"
            /\ pc' = "outgoing"
            /\ UNCHANGED <<cacheVars, target, relIdx, relCount, relPages>>
  /\ UNCHANGED <<cursorVars, forgeVars, prVars, requests, ctx, defaultTag, lastDraft, lastRelease,
                 lastVersion, featurePR, pending, result, thrown>>

\* one iteration of the for-await loop of findLastDraft(context.branch)
FindLastDraftStep ==
  /\ pc = "findLastDraft"
  /\ LET n == ReleasesNext(relIdx)
         look == DraftLookup(n, target[1])
     IN /\ HandleAfter(n)
        /\ IF look.decided
             THEN /\ lastDraft' = look.found
                  /\ pc' = "findLast"
                  /\ relIdx' = 0
             ELSE /\ relIdx' = relIdx + 1
                  /\ UNCHANGED <<lastDraft, pc>>
  /\ relCount' = 0
  /\ UNCHANGED <<cursorVars, forgeVars, prVars, ctx, defaultTag, path, target, lastRelease,
                 lastVersion, featurePR, pending, result, thrown>>

\* one iteration of the for-await loop of find, called by findLast(target);
\* when it returns, the caller parses the tag and creates the generator of
\* the pull requests merged into target since the release was published
FindLastStep ==
  /\ pc = "findLast"
  /\ LET n == ReleasesNext(relIdx)
         look == FindLookup(n, relCount, target[1])
         release == look.found
     IN IF look.decided /\ LastTagInvalid(release)
          THEN /\ lastRelease' = release
               /\ thrown' = InvalidVersion(release[1].tagName[1])
               /\ requests' = n.reqs
               /\ DropReleasesHandle
               /\ pc' = "failed"
               /\ UNCHANGED <<lastVersion, prVars>>
        ELSE IF look.decided
          THEN /\ lastRelease' = release
               /\ lastVersion' = IF release # None /\ release[1].tagName # None
                                   THEN Some(ParseVersion(release[1].tagName[1])) ELSE None
               /\ requests' = n.reqs
               /\ DropReleasesHandle
               /\ prListing' = <<>>
               /\ gen' = NewGen("incoming", target[1], MergedSince(release))
               /\ collected' = <<>>
               /\ pc' = "query"
               /\ UNCHANGED thrown
          ELSE /\ HandleAfter(n)
               /\ relIdx' = relIdx + 1
               /\ relCount' = relCount + 1
               /\ UNCHANGED <<lastRelease, lastVersion, prVars, pc, thrown>>
  /\ UNCHANGED <<cursorVars, forgeVars, ctx, defaultTag, path, target, lastDraft, featurePR,
                 pending, result>>

\* the pull requests merged into the target branch that the forge holds when
\* the first query of the generator reaches it
IncomingListed ==
  /\ pc = "query"
  /\ prListing' \in IncomingListings(target[1])
  /\ pc' = "collect"
  /\ UNCHANGED <<cacheVars, cursorVars, forgeVars, gen, collected, requests, orchVars>>

\* the forge's response to createRelease
CreatedReleaseData(request) ==
  [id |-> MaxReleases + 1, tag_name |-> request.tag_name,
   target_commitish |-> request.target_commitish, name |-> request.name,
   body |-> "generated notes", published_at |-> NoDate, draft |-> request.draft,
   prerelease |-> FALSE]

\* createDraftRelease: the request sent
CreateRequest(tagName, targetCommitish, name) ==
  [kind |-> "createRelease", tag_name |-> tagName, target_commitish |-> targetCommitish,
   name |-> name, draft |-> TRUE, generate_release_notes |-> TRUE]

\* the bodies the forge can answer generateReleaseNotes with
NotesBodies == {"notes A", "notes B"}

\* generateReleaseNotes: the request sent
NotesRequestNoPrevious(tagName, targetCommitish, previousTagName) ==
  [kind |-> "generateReleaseNotes", tag_name |-> tagName,
   target_commitish |-> targetCommitish, previous_tag_name |-> None]
NotesRequestByCreate(tagName, targetCommitish, previousTagName) ==
  [kind |-> "createRelease", tag_name |-> tagName, target_commitish |-> targetCommitish,
   name |-> tagName, draft |-> TRUE, generate_release_notes |-> TRUE]
NotesRequest(tagName, targetCommitish, previousTagName) ==
  [kind |-> "generateReleaseNotes", tag_name |-> tagName,
   target_commitish |-> targetCommitish, previous_tag_name |-> previousTagName]

\* updateRelease: the request sent for the Release given
UpdateRequestPublishes(release) ==
  [kind |-> "updateRelease", release_id |-> release.id, tag_name |-> release.tagName,
   target_commitish |-> release.targetCommitish, name |-> release.name,
   body |-> release.body, draft |-> FALSE, prerelease |-> release.prerelease]
UpdateRequest(release) ==
  [kind |-> "updateRelease", release_id |-> release.id, tag_name |-> release.tagName,
   target_commitish |-> release.targetCommitish, name |-> release.name,
   body |-> release.body, draft |-> release.draft, prerelease |-> release.prerelease]

\* the forge's response to updateRelease
UpdatedReleaseData(request) ==
  [id |-> request.release_id, tag_name |-> request.tag_name[1],
   target_commitish |-> request.target_commitish, name |-> request.name,
   body |-> request.body, published_at |-> NoDate, draft |-> request.draft,
   prerelease |-> request.prerelease]

\* performUpsert: which branch is taken
UpsertUpdatesNever(existingDraft) == FALSE
UpsertUpdates(existingDraft) == existingDraft # None

\* if (pullRequests.length === 0)
NothingMergedNever(pullRequests) == FALSE
NothingMerged(pullRequests) == Len(pullRequests) = 0

\* upsertDraftReleaseForReleaseBranch after collect(): nothing to do, or
\* infer the version and call performUpsert up to its first request
UpsertAfterCollect ==
  /\ pc = "collected"
  /\ path = "release"
  /\ IF NothingMerged(collected)
       THEN /\ result' = Some([action |-> "none", lastRelease |-> lastRelease,
                               lastVersion |-> lastVersion, lastDraft |-> lastDraft])
            /\ pc' = "done"
            /\ UNCHANGED <<requests, pending, thrown>>
       ELSE IF DefaultTagInvalid(lastVersion, defaultTag[1])
         THEN /\ thrown' = InvalidVersion(defaultTag[1])
              /\ pc' = "failed"
              /\ UNCHANGED <<requests, pending, result>>
       ELSE LET versionIncrement == InferImpactFromPRs(collected)
                nextVersion == InferNextVersion(lastVersion, versionIncrement, ctx,
                                                defaultTag[1], None)
                tag == VersionTag(nextVersion)
                create == CreateRequest(tag, ctx.branch, tag)
            IN UNCHANGED thrown /\
               IF UpsertUpdates(lastDraft)
                 THEN /\ requests' = Append(requests,
                            NotesRequest(tag, ctx.branch,
                                         IF lastRelease # None THEN lastRelease[1].tagName
                                                               ELSE None))
                      /\ \E body \in NotesBodies :
                           pending' = Some([versionIncrement |-> versionIncrement,
                                            nextVersion |-> nextVersion,
                                            body |-> body])
                      /\ pc' = "update"
                      /\ UNCHANGED result
                 ELSE /\ requests' = Append(requests, create)
                      /\ result' = Some([action |-> "created", lastDraft |-> lastDraft,
                                         lastRelease |-> lastRelease,
                                         lastVersion |-> lastVersion,
                                         pullRequestTitles |->
                                           [i \in DOMAIN collected |-> collected[i].title],
                                         versionIncrement |-> versionIncrement,
                                         version |-> nextVersion,
                                         release |-> MapRelease(CreatedReleaseData(create))])
                      /\ pc' = "done"
                      /\ UNCHANGED pending
  /\ UNCHANGED <<cacheVars, cursorVars, forgeVars, prVars, ctx, defaultTag, path, target, relIdx,
                 relCount, relPages, lastDraft, lastRelease, lastVersion, featurePR>>

\* performUpsert after the release notes arrived: updateRelease
UpdateDraft ==
  /\ pc = "update"
  /\ LET tag == VersionTag(pending[1].nextVersion)
         update == UpdateRequest([lastDraft[1] EXCEPT !.name = tag, !.tagName = Some(tag),
                                                      !.body = pending[1].body])
     IN /\ requests' = Append(requests, update)
        /\ result' = Some([action |-> "updated", lastDraft |-> lastDraft,
                           lastRelease |-> lastRelease, lastVersion |-> lastVersion,
                           pullRequestTitles |->
                             [i \in DOMAIN collected |-> collected[i].title],
                           versionIncrement |-> pending[1].versionIncrement,
                           version |-> pending[1].nextVersion,
                           release |-> MapRelease(UpdatedReleaseData(update))])
  /\ pending' = None
  /\ pc' = "done"
  /\ UNCHANGED <<cacheVars, cursorVars, forgeVars, prVars, ctx, defaultTag, path, target, relIdx,
                 relCount, relPages, lastDraft, lastRelease, lastVersion, featurePR, thrown>>

\* inferVersionForFeatureBranch: first() of the outgoing pull requests
FindOutgoingAssumesMain ==
  /\ pc = "outgoing"
  /\ requests' = Append(requests, GraphqlRequest(NewGen("outgoing", ctx.branch, NoDate)))
  /\ featurePR' = None
  /\ target' = Some(BranchMain)
  /\ NewReleasesHandle
  /\ pc' = "findLast"
  /\ UNCHANGED <<cursorVars, forgeVars, prVars, ctx, defaultTag, path, lastDraft, lastRelease,
                 lastVersion, pending, result, thrown>>
FindOutgoing ==
  /\ pc = "outgoing"
  /\ \E listing \in OutgoingListings :
       LET g == NewGen("outgoing", ctx.branch, NoDate)
           response == ForgePage(listing, g.cursor)
       IN /\ requests' = Append(requests, GraphqlRequest(g))
          /\ IF Len(response.nodes) = 0
               THEN /\ featurePR' = None
                    /\ result' = Some([action |-> "none", lastDraft |-> None,
                                       lastRelease |-> None, lastVersion |-> None])
                    /\ pc' = "done"
                    /\ UNCHANGED <<cacheVars, target, relIdx, relCount, relPages>>
               ELSE /\ featurePR' = Some(MapPullRequest(response.nodes[1]))
                    /\ target' = Some(response.nodes[1].baseRefName)
                    /\ NewReleasesHandle
                    /\ pc' = "findLast"
                    /\ UNCHANGED result
  /\ UNCHANGED <<cursorVars, forgeVars, prVars, ctx, defaultTag, path, lastDraft, lastRelease,
                 lastVersion, pending, thrown>>

\* const prs = [featurePR, ...mergedPullRequests]
FeaturePRsMergedOnly(pr, mergedPullRequests) == mergedPullRequests
FeaturePRs(pr, mergedPullRequests) == <<pr>> \o mergedPullRequests

\* inferVersionForFeatureBranch after collect()
InferAfterCollect ==
  /\ pc = "collected"
  /\ path = "feature"
  /\ IF DefaultTagInvalid(lastVersion, defaultTag[1])
    THEN /\ thrown' = InvalidVersion(defaultTag[1])
         /\ pc' = "failed"
         /\ UNCHANGED result
    ELSE
     LET prs == FeaturePRs(featurePR[1], collected)
         versionIncrement == InferImpactFromPRs(prs)
         nextVersion == InferNextVersion(lastVersion, versionIncrement, ctx,
                                         defaultTag[1], Some(ctx.branch))
     IN UNCHANGED thrown /\ pc' = "done" /\
        result' = Some([action |-> "version", lastRelease |-> lastRelease,
                        lastVersion |-> lastVersion,
                        pullRequestTitles |-> [i \in DOMAIN prs |-> prs[i].title],
                        versionIncrement |-> versionIncrement,
                        version |-> nextVersion])
  /\ UNCHANGED <<cacheVars, cursorVars, forgeVars, prVars, requests, ctx, defaultTag, path, target,
                 relIdx, relCount, relPages, lastDraft, lastRelease, lastVersion,
                 featurePR, pending>>

\* the errors a forge request can be rejected with
ForgeErrors == {"API rate limit exceeded", "Bad credentials"}

\* the tag performUpsert is called with
UpsertTag ==
  VersionTag(InferNextVersion(lastVersion, InferImpactFromPRs(collected), ctx,
                              defaultTag[1], None))

\* the request the invocation sends at its next step, None when that step
\* sends none
NextForgeRequest ==
  CASE pc \in {"findLastDraft", "findLast"} ->
         LET n == ReleasesNext(relIdx) IN
           IF n.reqs # requests THEN Some(n.reqs[Len(n.reqs)]) ELSE None
    [] pc = "collect" ->
         IF gen.st = "request" THEN Some(GraphqlRequest(gen)) ELSE None
    [] pc = "outgoing" -> Some(GraphqlRequest(NewGen("outgoing", ctx.branch, NoDate)))
    [] pc = "collected" ->
         IF /\ path = "release" /\ ~NothingMerged(collected)
            /\ ~DefaultTagInvalid(lastVersion, defaultTag[1])
           THEN IF UpsertUpdates(lastDraft)
                  THEN Some(NotesRequest(UpsertTag, ctx.branch,
                                         IF lastRelease # None THEN lastRelease[1].tagName
                                                               ELSE None))
                  ELSE Some(CreateRequest(UpsertTag, ctx.branch, UpsertTag))
           ELSE None
    [] pc = "update" ->
         LET tag == VersionTag(pending[1].nextVersion) IN
           Some(UpdateRequest([lastDraft[1] EXCEPT !.name = tag, !.tagName = Some(tag),
                                                   !.body = pending[1].body]))
    [] OTHER -> None

\* where a rejected await leaves the invocation: no statement of
\* performAction catches it
AfterRejectionRetry(at) == at
AfterRejection(at) == "failed"

\* the request the invocation awaits is rejected by the forge: the rejection
\* leaves every generator and function on the way and rejects performAction
RequestFails ==
  /\ pc \in {"findLastDraft", "findLast", "collect", "outgoing", "collected", "update"}
  /\ NextForgeRequest # None
  /\ requests' = Append(requests, NextForgeRequest[1])
  /\ \E e \in ForgeErrors :
       thrown' = Some([kind |-> "forge", message |-> e, request |-> Len(requests) + 1,
                       text |-> None])
  /\ pc' = AfterRejection(pc)
  /\ DropReleasesHandle
  /\ UNCHANGED <<cursorVars, forgeVars, prVars, ctx, defaultTag, path, target, lastDraft, lastRelease,
                 lastVersion, featurePR, pending, result>>

Init ==
  /\ NoForge
  /\ srcItems = <<>> /\ srcPos = 0 /\ srcDone = FALSE
  /\ cache = <<>> /\ sourceExhausted = FALSE
  /\ reqQ = <<>> /\ resumeQ = <<>> /\ pulls = 0
  /\ cur = [c \in Cursors |-> FreshCursor]
  /\ prListing = <<>> /\ gen = IdleGen /\ collected = <<>>
  /\ requests = <<>>
  /\ ctx \in Contexts
  /\ defaultTag \in {Some(t) : t \in DefaultTags}
  /\ path = "none" /\ target = None
  /\ relIdx = 0 /\ relCount = 0 /\ relPages = 0
  /\ lastDraft = None /\ lastRelease = None /\ lastVersion = None
  /\ featurePR = None /\ pending = None /\ result = None /\ thrown = None
  /\ pc = "start"

Next ==
  \/ PerformAction
  \/ FindLastDraftStep
  \/ FindLastStep
  \/ IncomingListed
  \/ PRFetchPage
  \/ PRNextItem
  \/ PREndPage
  \/ UpsertAfterCollect
  \/ UpdateDraft
  \/ FindOutgoing
  \/ InferAfterCollect
  \/ RequestFails

Spec == Init /\ [][Next]_vars

(***************************************************************************)
(* A Releases handle used on its own: one lookup on fetchReleases(context) *)
(***************************************************************************)
\* a release of another branch, as found ahead of the one searched for
OtherRelease == ReleaseData(<<2, 0, 0>>, <<>>, BranchRel, FALSE, FALSE, 1)
SearchedRelease == ReleaseData(<<1, 2, 3>>, <<>>, BranchMain, FALSE, FALSE, 2)

\* longest listing of the forge: more than a search ever reads
MaxListed == MaxReleasesSearched + 2

\* listings of n releases with the searched one at position m (nowhere if 0)
LongListings ==
  {[i \in 1..n |-> WithId(IF i = m THEN SearchedRelease ELSE OtherRelease, i)] :
     n \in 0..MaxListed, m \in 0..MaxListed}

\* a draft of another branch, as found ahead of the draft searched for
OtherDraft == ReleaseData(<<0, 9, 0>>, <<>>, BranchRel, TRUE, FALSE, NoDate)
SearchedDraft == ReleaseData(<<0, 9, 0>>, <<>>, BranchMain, TRUE, FALSE, NoDate)

\* listings of n drafts with the searched one at position m (nowhere if 0)
DraftListings ==
  {[i \in 1..n |-> WithId(IF i = m THEN SearchedDraft ELSE OtherDraft, i)] :
     n \in 0..MaxListed, m \in 0..MaxListed}

InitFind ==
  /\ NoForge
  /\ srcItems \in ReleaseListings \cup LongListings \cup DraftListings
  /\ srcPos = 0 /\ srcDone = FALSE
  /\ cache = <<>> /\ sourceExhausted = FALSE
  /\ reqQ = <<>> /\ resumeQ = <<>> /\ pulls = 0
  /\ cur = [c \in Cursors |-> FreshCursor]
  /\ prListing = <<>> /\ gen = IdleGen /\ collected = <<>>
  /\ requests = <<>>
  /\ ctx = None /\ defaultTag = None /\ path = "none"
  /\ target = Some(BranchMain)
  /\ relIdx = 0 /\ relCount = 0 /\ relPages = 0
  /\ lastDraft = None /\ lastRelease = None /\ lastVersion = None
  /\ featurePR = None /\ pending = None /\ result = None /\ thrown = None
  /\ pc \in {"lookupDraft", "lookupLast"}

\* releases.findLastDraft(target): one iteration of its loop
LookupDraftStep ==
  /\ pc = "lookupDraft"
  /\ LET n == ReleasesNext(relIdx)
         look == DraftLookup(n, target[1])
     IN /\ HandleAfter(n)
        /\ IF look.decided
             THEN /\ lastDraft' = look.found
                  /\ pc' = "draftLookedUp"
                  /\ UNCHANGED relIdx
             ELSE /\ relIdx' = relIdx + 1
                  /\ UNCHANGED <<lastDraft, pc>>
  /\ UNCHANGED <<cursorVars, forgeVars, prVars, ctx, defaultTag, path, target, relCount, lastRelease,
                 lastVersion, featurePR, pending, result, thrown>>

\* releases.findLast(target): one iteration of the loop of find
LookupLastStep ==
  /\ pc = "lookupLast"
  /\ LET n == ReleasesNext(relIdx)
         look == FindLookup(n, relCount, target[1])
     IN /\ HandleAfter(n)
        /\ IF look.decided
             THEN /\ lastRelease' = look.found
                  /\ pc' = "lastLookedUp"
                  /\ UNCHANGED <<relIdx, relCount>>
             ELSE /\ relIdx' = relIdx + 1
                  /\ relCount' = relCount + 1
                  /\ UNCHANGED <<lastRelease, pc>>
  /\ UNCHANGED <<cursorVars, forgeVars, prVars, ctx, defaultTag, path, target, lastDraft,
                 lastVersion, featurePR, pending, result, thrown>>

NextFind ==
  \/ LookupDraftStep
  \/ LookupLastStep

SpecFind == InitFind /\ [][NextFind]_vars


(***************************************************************************)
(* Claims about the pull-request generator (checked under SpecPR).         *)
(***************************************************************************)
\* the listed pull requests merged at or after the cutoff, in listing order
ListedMergedSince(l, c) ==
  SelectSeq([i \in DOMAIN l |-> MapPullRequest(l[i])],
            LAMBDA pr : pr.mergedAt # NoDate /\ (c = NoDate \/ pr.mergedAt >= c))

\* C6: for an incoming listing ordered by last-updated descending in which
\* every item is updated at or after its merge time, collecting with cutoff c
\* yields exactly the listed pull requests merged at or after c
C6_CollectsAllMergedSince ==
  (pc = "collected" /\ gen.type = "incoming" /\ gen.mergedSince # NoDate)
    => collected = ListedMergedSince(prListing, gen.mergedSince)


(***************************************************************************)
(* Claims about the CachingAsyncIterable (checked under SpecCache).        *)
(***************************************************************************)
\* items the producer has handed out whose awaiting cursor has not resumed yet
InFlightItems == Cardinality({i \in DOMAIN resumeQ : ~resumeQ[i].done /\ ~resumeQ[i].failed})

\* C1: in every reachable state, for any interleaving of cursor steps and with
\* cursors abandoned partway, the cache is a duplicate-free prefix of the
\* producer's sequence in producer order, the number of pulls that returned an
\* item equals the cache length, the producer never hands an item out twice,
\* and the cache only ever grows by appending.
C1_AtMostOnceFetch ==
  /\ [](/\ IsPrefix(cache, srcItems)
        /\ NoDuplicates(cache)
        /\ pulls = Len(cache)
        /\ srcPos = Len(cache) + InFlightItems
        /\ srcPos <= Len(srcItems))
  /\ [][IsPrefix(cache, cache')]_vars

\* C1 witness: a cursor was abandoned after one item, another cursor went on
\* pulling and the whole sequence is cached
C1_Witness ==
  \E c, d \in Cursors :
    /\ c # d
    /\ cur[c].st = "stopped" /\ Len(cur[c].out) = 1
    /\ cur[d].st = "pull" /\ Len(cur[d].out) >= 2
    /\ Len(cache) = MaxItems

\* C2: every cursor that is advanced to completion has yielded exactly the
\* producer's items, each once and in producer order, whatever the
\* interleaving with other cursors
C2_CompletedCursorSeesAll ==
  \A c \in Cursors : cur[c].st = "done" => cur[c].out = srcItems

C12_PartialThenFull ==
  /\ \A c \in Cursors : IsPrefix(cur[c].out, srcItems)
  /\ \A c \in Cursors : cur[c].st = "done" => (cur[c].out = srcItems /\ pulls = Len(srcItems))
  /\ pulls = Len(cache) /\ IsPrefix(cache, srcItems)
  /\ srcPos = Len(cache) + InFlightItems

\* C12 witness: an iteration abandoned after n = 2 of N = 3 items, then a full
\* iteration that replayed two items and pulled the third
C12_Witness ==
  \E c, d \in Cursors :
    /\ c # d /\ Len(srcItems) = 3
    /\ cur[c].st = "stopped" /\ Len(cur[c].out) = 2
    /\ cur[d].st = "done" /\ cur[d].idx = 2 /\ cur[d].out = srcItems
    /\ pulls = 3

\* C13: once sourceExhausted is set it stays set, the cache and the number of
\* pulls never change again, no further next() call reaches the producer, and
\* every iteration started afterwards and run to completion yields the cache
C13_ExhaustedIsIdempotent ==
  /\ [][sourceExhausted =>
          /\ sourceExhausted' /\ cache' = cache /\ pulls' = pulls
          /\ srcPos' = srcPos /\ Len(reqQ') <= Len(reqQ)]_vars
  /\ \A c \in Cursors :
       [](sourceExhausted /\ cur[c] = FreshCursor
            => [](cur[c].st = "done" => cur[c].out = cache))

\* C13 witness: an iteration over the exhausted iterable completed from the
\* cache alone
C13_Witness ==
  \E c \in Cursors :
    /\ sourceExhausted /\ Len(cache) = 3 /\ pulls = 3
    /\ cur[c].st = "done" /\ cur[c].idx = 3 /\ cur[c].out = cache

\* C14: under sequential use a cursor that is replaying has yielded a prefix
\* of the cache and left it untouched, a cursor that is pulling has yielded
\* the whole cache, the cache grows only by the producer's next item, stopping
\* a cursor changes neither the cache nor the producer nor sourceExhausted,
\* and sourceExhausted is set only after the producer reported completion
C14_StopKeepsProducer ==
  /\ [](/\ sourceExhausted => srcDone
        /\ \A c \in Cursors :
             /\ cur[c].st = "replay" => cur[c].out = SubSeq(cache, 1, cur[c].idx)
             /\ cur[c].st \in {"pull", "await"} =>
                  (cur[c].out = cache /\ cur[c].idx <= Len(cache)))
  /\ [][/\ \A c \in Cursors :
            (cur[c].st # "stopped" /\ cur'[c].st = "stopped") =>
              UNCHANGED <<cache, sourceExhausted, srcPos, srcDone, reqQ, resumeQ>>
        /\ cache' # cache =>
             \E c \in Cursors :
               /\ cur[c].st = "await" /\ cur'[c].st = "pull"
               /\ cache' = Append(cache, srcItems[Len(cache) + 1])
               /\ cur'[c].out = cache']_vars

\* C14 witness: a cursor stopped after one item, a later cursor stopped after
\* two, and the producer stands at its third item
C14_Witness ==
  \E c, d \in Cursors :
    /\ c # d /\ Len(srcItems) = 3
    /\ cur[c].st = "stopped" /\ Len(cur[c].out) = 1
    /\ cur[d].st = "stopped" /\ cur[d].idx = 1 /\ Len(cur[d].out) = 2
    /\ Len(cache) = 2 /\ srcPos = 2 /\ ~srcDone /\ ~sourceExhausted

(***************************************************************************)
(* Claims about performAction (checked under Spec).                        *)
(***************************************************************************)
RequestsOfKind(kinds) == SelectSeq(requests, LAMBDA r : r.kind \in kinds)
Creates == RequestsOfKind({"createRelease"})
Updates == RequestsOfKind({"updateRelease"})
Mutations == RequestsOfKind({"createRelease", "updateRelease"})
Finished == pc = "done" /\ result # None

\* the order major > minor > patch > none, and the largest impact of a sequence
ImpactRank(impact) ==
  CASE impact = "major" -> 3 [] impact = "minor" -> 2 [] impact = "patch" -> 1 [] OTHER -> 0
LargestImpact(titles) ==
  IF titles = <<>> THEN "none"
  ELSE CHOOSE x \in {MessageImpact(titles[i]) : i \in DOMAIN titles} :
         \A j \in DOMAIN titles : ImpactRank(MessageImpact(titles[j])) <= ImpactRank(x)

\* the semantic-version increment of a core triple
CoreBumped(core, impact) ==
  CASE impact = "major" -> <<core[1] + 1, 0, 0>>
    [] impact = "minor" -> <<core[1], core[2] + 1, 0>>
    [] impact = "patch" -> <<core[1], core[2], core[3] + 1>>
    [] OTHER -> core

\* C3: an invocation of performAction issues at most one release mutation in
\* total, never both a create and an update
C3_AtMostOneMutation == Len(Mutations) <= 1

\* C3 witness: an invocation has ended after updating a draft
C3_Witness == Finished /\ result[1].action = "updated" /\ Len(Updates) = 1

\* C4: when the current branch is not a release branch, no create, update or
\* release-notes request is ever issued and the result action is version or none
C4_FeatureBranchNeverMutates ==
  ctx.branch \notin ctx.releaseBranches =>
    /\ RequestsOfKind({"createRelease", "updateRelease", "generateReleaseNotes"}) = <<>>
    /\ result # None => result[1].action \in {"version", "none"}

\* C4 witness: a feature-branch invocation has ended with a version inferred
\* from its own pull request and a merged one
C4_Witness ==
  /\ Finished /\ ctx.branch \notin ctx.releaseBranches
  /\ result[1].action = "version"
  /\ Len(result[1].pullRequestTitles) = 2

\* C5: the release path is taken if and only if the current branch is a
\* release branch, the path never changes, an invocation ends with exactly
\* one result, which is none, created or updated on the release path and
\* none or version on the feature path
C5_OnePathOneOutcome ==
  /\ [](/\ path \in {"none", "release", "feature"}
        /\ path = "release" => ctx.branch \in ctx.releaseBranches
        /\ path = "feature" => ctx.branch \notin ctx.releaseBranches
        /\ (pc = "done") <=> (result # None)
        /\ (result # None /\ path = "release")
             => result[1].action \in {"none", "created", "updated"}
        /\ (result # None /\ path = "feature") => result[1].action \in {"none", "version"})
  /\ [][(path # "none" => path' = path) /\ (result # None => result' = result)]_vars

\* C5 witness: both outcomes none are reached, here the one of the release path
C5_Witness == Finished /\ path = "release" /\ result[1].action = "none"

\* C7: on the release path with at least one collected pull request the action
\* is updated exactly when the draft lookup found a non-prerelease draft
\* targeting the current branch, with one update against that draft's id and
\* no create; otherwise it is created with one create targeting the current
\* branch with draft = true; a draft of another branch is never updated
C7_UpdateIffDraftFound ==
  (Finished /\ path = "release" /\ collected # <<>>) =>
    IF lastDraft # None
      THEN /\ lastDraft[1].draft /\ ~lastDraft[1].prerelease
           /\ lastDraft[1].targetCommitish = ctx.branch
           /\ result[1].action = "updated"
           /\ Len(Updates) = 1 /\ Creates = <<>>
           /\ Updates[1].release_id = lastDraft[1].id
           /\ Updates[1].target_commitish = ctx.branch
      ELSE /\ result[1].action = "created"
           /\ Len(Creates) = 1 /\ Updates = <<>>
           /\ Creates[1].target_commitish = ctx.branch
           /\ Creates[1].draft

\* C7 witness: a draft was found and updated
C7_Witness ==
  /\ Finished /\ path = "release" /\ collected # <<>>
  /\ lastDraft # None /\ result[1].action = "updated"

\* core of the last published release, or of the default tag when there is none
BaseCore == IF lastRelease # None THEN lastRelease[1].tagName[1].parts ELSE defaultTag[1].parts

\* C8 as stated: on both paths the version's core is bump(base, impact), with
\* base the last published version or else the default tag
C8_CoreIsBumpOfBase ==
  (Finished /\ result[1].action \in {"created", "updated", "version"}) =>
    result[1].version.base = CoreBumped(BaseCore, LargestImpact(result[1].pullRequestTitles))

\* C8 amended: the core is bump(last published version, impact) when a last
\* published release exists, and the default tag's core, not bumped, when none
\* exists
C8_CoreIsBumpOfLastRelease ==
  (Finished /\ result[1].action \in {"created", "updated", "version"}) =>
    result[1].version.base =
      IF lastRelease # None
        THEN CoreBumped(lastRelease[1].tagName[1].parts,
                        LargestImpact(result[1].pullRequestTitles))
        ELSE defaultTag[1].parts

\* C8 witness: a major bump of the last published release, decided by the
\* second of two titles
C8_Witness ==
  /\ Finished /\ result[1].action \in {"created", "updated", "version"}
  /\ lastRelease # None
  /\ Len(result[1].pullRequestTitles) = 2
  /\ MessageImpact(result[1].pullRequestTitles[1]) = "patch"
  /\ MessageImpact(result[1].pullRequestTitles[2]) = "major"

\* C9: with no published release for the branch being versioned and at least
\* one pull request considered, the version's core is the default tag's core
\* whatever the impact
C9_DefaultTagUnchanged ==
  (Finished /\ lastRelease = None /\ result[1].action \in {"created", "updated", "version"})
    => result[1].version.base = defaultTag[1].parts

\* C9 witness: default tag with impact minor on the release path
C9_Witness ==
  /\ Finished /\ lastRelease = None /\ path = "release"
  /\ result[1].action = "created"
  /\ result[1].versionIncrement = "minor"

\* C10: on the release path with no pull request collected the result is
\* none, carries the results of both lookups, and no release-notes, create or
\* update request was issued, whether or not a draft or a release exists
C10_NothingMergedNoMutation ==
  (Finished /\ path = "release" /\ collected = <<>>) =>
    /\ result[1] = [action |-> "none", lastRelease |-> lastRelease,
                    lastVersion |-> lastVersion, lastDraft |-> lastDraft]
    /\ lastVersion = IF lastRelease = None THEN None
                     ELSE Some([base |-> lastRelease[1].tagName[1].parts,
                                prerelease |-> lastRelease[1].tagName[1].pre,
                                build |-> lastRelease[1].tagName[1].build])
    /\ RequestsOfKind({"createRelease", "updateRelease", "generateReleaseNotes"}) = <<>>

\* C10 witness: nothing merged since the last release although a draft and a
\* published release exist
C10_Witness ==
  /\ Finished /\ path = "release" /\ collected = <<>>
  /\ lastDraft # None /\ lastRelease # None
  /\ prListing # <<>>

(***************************************************************************)
(* Claims about the lookups of a Releases handle (checked under SpecFind). *)
(***************************************************************************)
ListPages == SelectSeq(requests, LAMBDA r : r.kind = "listReleases")
CeilDiv(a, b) == (a + b - 1) \div b
\* least position of l whose item passes Test, 0 when there is none
FirstWhere(l, Test(_)) ==
  LET S == {i \in DOMAIN l : Test(l[i])} IN
    IF S = {} THEN 0 ELSE CHOOSE i \in S : \A j \in S : i <= j
\* the forge's releases that the lookups are after, read off the forge's data
FirstPublished ==
  FirstWhere(srcItems, LAMBDA d : ~d.draft /\ ~d.prerelease /\ d.target_commitish = target[1])
FirstDraft ==
  FirstWhere(srcItems, LAMBDA d : d.draft /\ ~d.prerelease /\ d.target_commitish = target[1])
FirstNonDraft == FirstWhere(srcItems, LAMBDA d : ~d.draft)
\* the Release a lookup should return for the forge's item at position i
SameRelease(found, i) ==
  /\ found # None
  /\ found[1].id = srcItems[i].id
  /\ found[1].targetCommitish = srcItems[i].target_commitish
  /\ found[1].draft = srcItems[i].draft /\ found[1].prerelease = srcItems[i].prerelease
  /\ found[1].publishedAt = srcItems[i].published_at
  /\ found[1].tagName = IF srcItems[i].draft THEN None ELSE Some(srcItems[i].tag_name)

C16_FindLastDraft ==
  pc = "draftLookedUp" =>
    LET hit == FirstDraft # 0 /\ (FirstNonDraft = 0 \/ FirstDraft < FirstNonDraft)
        decider == IF hit THEN FirstDraft
                   ELSE IF FirstNonDraft # 0 THEN FirstNonDraft
                   ELSE Len(srcItems)
    IN /\ IF hit THEN SameRelease(lastDraft, FirstDraft) ELSE lastDraft = None
       /\ srcPos = decider /\ Len(cache) = decider
       /\ Len(ListPages) = IF decider = 0 THEN 1 ELSE CeilDiv(decider, PerPage)

\* C16 witness: the draft of another branch is skipped, the draft of the
\* branch is found second, a third release is never pulled
C16_Witness ==
  /\ pc = "draftLookedUp" /\ Len(srcItems) = 3
  /\ srcItems[1].draft /\ srcItems[1].target_commitish # target[1]
  /\ lastDraft # None /\ lastDraft[1].id = 2
  /\ srcPos = 2 /\ Len(ListPages) = 1

\* C17: findLast(b) returns the first release in listing order that is not a
\* draft, not a prerelease and targets b, whatever precedes it, and null when
\* there is none among the first 5P listed items
C17_FindLast ==
  pc = "lastLookedUp" =>
    IF FirstPublished \in 1..(MAX_PAGES * PerPage)
      THEN SameRelease(lastRelease, FirstPublished)
      ELSE lastRelease = None

\* C17 witness: a draft and a published prerelease of the branch precede the
\* release returned
C17_Witness ==
  /\ pc = "lastLookedUp" /\ Len(srcItems) = 3
  /\ srcItems[1].draft /\ srcItems[1].target_commitish = target[1]
  /\ ~srcItems[2].draft /\ srcItems[2].prerelease /\ srcItems[2].target_commitish = target[1]
  /\ lastRelease # None /\ lastRelease[1].id = 3

(***************************************************************************)
(* Claims about failures and the order of events of performAction          *)
(* (checked under Spec).                                                   *)
(***************************************************************************)
ForgeFailure == thrown # None /\ thrown[1].kind = "forge"

\* C18: when a forge request of performAction is rejected, performAction
\* rejects with the forge's error for that request and resolves to nothing,
\* the rejected request is the last one ever sent (no retry, no later
\* request), and a rejected listing, query or release-notes request is
\* followed by no create or update
C18_ForgeFailureIsHardStop ==
  /\ [](ForgeFailure =>
          /\ pc = "failed" /\ result = None
          /\ thrown[1].message \in ForgeErrors
          /\ thrown[1].request = Len(requests)
          /\ requests[Len(requests)].kind
               \in {"listReleases", "graphql", "generateReleaseNotes"} => Mutations = <<>>
          /\ Len(Mutations) <= 1)
  /\ [][ForgeFailure => (requests' = requests /\ thrown' = thrown /\ result' = result)]_vars
  /\ [][(thrown = None /\ thrown' # None /\ thrown'[1].kind = "forge") =>
          (Len(requests') = Len(requests) + 1 /\ SubSeq(requests', 1, Len(requests)) = requests)]_vars

\* C18 witness: the pull-request query failed after the lookups had found a
\* draft to update; nothing was sent afterwards
C18_Witness ==
  /\ ForgeFailure /\ path = "release" /\ lastDraft # None
  /\ requests[Len(requests)].kind = "graphql"
  /\ Len(ListPages) >= 1 /\ Mutations = <<>>
\* C19: an invocation that is given an unparseable default tag, or that finds
\* a last published release whose tag parse rejects, and that no forge error
\* ends, fails with the Invalid version error naming that string and has sent
\* no create or update
C19_InvalidVersionFails ==
  (/\ pc \in {"done", "failed"} /\ ~ForgeFailure
   /\ (~ParseOk(defaultTag[1]) \/ LastTagInvalid(lastRelease))) =>
    /\ pc = "failed" /\ result = None
    /\ thrown = InvalidVersion(IF LastTagInvalid(lastRelease)
                                 THEN lastRelease[1].tagName[1] ELSE defaultTag[1])
    /\ Mutations = <<>>
\* the order of the steps of upsertDraftReleaseForReleaseBranch
PcRank(at) ==
  CASE at = "start" -> 0
    [] at = "findLastDraft" -> 1
    [] at = "findLast" -> 2
    [] at \in {"query", "collect"} -> 3
    [] at = "collected" -> 4
    [] at = "update" -> 5
    [] OTHER -> 6
\* the order in which the kinds of request may appear in the log
KindRank(kind) ==
  CASE kind = "listReleases" -> 1
    [] kind = "graphql" -> 2
    [] kind = "generateReleaseNotes" -> 3
    [] OTHER -> 4

\* C20: on the release path the draft lookup ends before the published lookup
\* starts, both end before the first pull-request query, and release notes
\* and the mutation are requested only after the collection has ended; the
\* release-listing pages are requested once each, in order, by both lookups
\* together; the generator's cutoff is the publish time of the release the
\* published lookup returned, or none
C20_ReleasePathOrder ==
  /\ [](path = "release" =>
          /\ pc = "findLastDraft" => (lastRelease = None /\ relCount = 0)
          /\ PcRank(pc) <= 2 => RequestsOfKind({"graphql"}) = <<>>
          /\ PcRank(pc) <= 3 =>
               RequestsOfKind({"generateReleaseNotes", "createRelease", "updateRelease"}) = <<>>
          /\ \A i, j \in DOMAIN requests :
               i < j => KindRank(requests[i].kind) <= KindRank(requests[j].kind)
          /\ \A i \in DOMAIN ListPages : ListPages[i].page = i
          /\ gen.st # "none" =>
               /\ gen.type = "incoming" /\ gen.baseRefName = <<ctx.branch>>
               /\ gen.mergedSince = IF lastRelease = None THEN NoDate
                                    ELSE lastRelease[1].publishedAt)
  /\ [][(path = "release" /\ path' = "release") =>
          /\ PcRank(pc') >= PcRank(pc)
          /\ pc # "findLastDraft" => lastDraft' = lastDraft
          /\ pc # "findLast" => lastRelease' = lastRelease]_vars

\* C20 witness: two listing pages read by the two lookups, a cutoff taken from
\* the release found, then a query, release notes and the update
C20_Witness ==
  /\ pc = "done" /\ path = "release" /\ result[1].action = "updated"
  /\ Len(ListPages) = 2 /\ lastRelease # None
  /\ gen.mergedSince = lastRelease[1].publishedAt
  /\ RequestsOfKind({"graphql"}) # <<>>

(***************************************************************************)
(* Claims about the Release values of performAction (checked under Spec).  *)
(***************************************************************************)
\* every Release value the invocation holds: the items of the handle's cache,
\* the results of the two lookups, and the mapped create or update response
ReleasesHeld ==
  Range(cache) \cup Range(lastDraft) \cup Range(lastRelease)
    \cup (IF result # None /\ result[1].action \in {"created", "updated"}
            THEN {result[1].release} ELSE {})

\* C21: every Release value obtained from the listing, from a create response
\* or from an update response that is a draft has tagName null, so a non-null
\* tagName is only ever seen on a non-draft release
C21_DraftHasNoTagName ==
  \A r \in ReleasesHeld :
    /\ r.draft => r.tagName = None
    /\ r.tagName # None => ~r.draft

\* C21 witness: a draft was updated with a tag in the request, the mapped
\* response has no tagName, and the last published release has one
C21_Witness ==
  /\ Finished /\ result[1].action = "updated"
  /\ Updates[1].tag_name # None
  /\ result[1].release.draft /\ result[1].release.tagName = None
  /\ lastDraft # None /\ lastDraft[1].tagName = None
  /\ lastRelease # None /\ lastRelease[1].tagName # None

(***************************************************************************)
(* Pure functions applied on their own: maxImpact, messageImpact and       *)
(* Version.bump, each called once on arguments drawn from bounded sets.    *)
(***************************************************************************)
MaxImpacts == 4
MaxPart == 2

Impacts == {"major", "minor", "patch", "none"}

\* the arrays maxImpact is called with
ImpactArrays == UNION {[1..n -> Impacts] : n \in 0..MaxImpacts}

\* the messages messageImpact is called with: leading whitespace, a type, a
\* scope, breaking markers, a colon and the rest of the message, each present,
\* absent or malformed
MessageLeads == {<<>>, <<" ">>, <<"\n">>, <<"\t", " ">>}
MessageTypes == {<<"f","e","a","t">>, <<"f","i","x">>, <<"c","h","o","r","e">>,
                 <<"F","e","a","t">>, <<"F","I","X">>, <<"f","e","a","t","2">>, <<>>}
MessageScopes == {<<>>, <<"(","s",")">>, <<"(",")">>, <<"(","s">>,
                  <<"(","a",")","(","b",")">>, <<" ">>}
MessageBangs == {<<>>, <<"!">>, <<"!","!">>}
MessageColons == {<<":">>, <<>>}
MessageRests ==
  {<<>>, <<" ">>, <<"x">>, <<" ","x">>, <<" ","x"," ">>,
   <<" ","x","\n","\n">> \o BreakingChangeSpace \o <<" ","y">>,
   <<"\n">> \o BreakingChangeDash,
   <<" ","x","\n","f","e","a","t","!",":"," ","z">>,
   <<" ","B","R","E","A","K","I","N","G"," ","C","H","A","N","G","E"," ","y">>}
Messages ==
  {l \o t \o s \o b \o c \o r :
     l \in MessageLeads, t \in MessageTypes, s \in MessageScopes,
     b \in MessageBangs, c \in MessageColons, r \in MessageRests}

\* the parsed Versions bump is called on
ParsedVersions ==
  {ParseVersion(VersionString("v", <<a, b, c>>, pre, build)) :
     a \in 0..MaxPart, b \in 0..MaxPart, c \in 0..MaxPart,
     pre \in {<<>>, <<"rc", "1">>}, build \in {<<>>, <<"7", "1">>}}

Calls ==
  {[fn |-> "maxImpact", impacts |-> i] : i \in ImpactArrays}
    \cup {[fn |-> "messageImpact", message |-> m] : m \in Messages}
    \cup {[fn |-> "bump", version |-> v, change |-> c] : v \in ParsedVersions, c \in Impacts}

InitPure ==
  /\ NoForge
  /\ srcItems = <<>> /\ srcPos = 0 /\ srcDone = FALSE
  /\ cache = <<>> /\ sourceExhausted = FALSE
  /\ reqQ = <<>> /\ resumeQ = <<>> /\ pulls = 0
  /\ cur = [c \in Cursors |-> FreshCursor]
  /\ prListing = <<>> /\ gen = IdleGen /\ collected = <<>>
  /\ requests = <<>>
  /\ ctx = None /\ defaultTag = None /\ path = "none" /\ target = None
  /\ relIdx = 0 /\ relCount = 0 /\ relPages = 0
  /\ lastDraft = None /\ lastRelease = None /\ lastVersion = None
  /\ featurePR = None /\ thrown = None
  /\ pending \in {Some(c) : c \in Calls}
  /\ result = None
  /\ pc = "call"

PureUnchanged ==
  UNCHANGED <<cacheVars, cursorVars, forgeVars, prVars, requests, ctx, defaultTag, path, target,
              relIdx, relCount, relPages, lastDraft, lastRelease, lastVersion, featurePR,
              thrown>>

\* maxImpact(impacts)
ApplyMaxImpact ==
  /\ pc = "call" /\ pending[1].fn = "maxImpact"
  /\ result' = Some(MaxImpact(pending[1].impacts))
  /\ pc' = "returned"
  /\ UNCHANGED pending
  /\ PureUnchanged

\* messageImpact(message)
ApplyMessageImpact ==
  /\ pc = "call" /\ pending[1].fn = "messageImpact"
  /\ result' = Some(MessageImpact(pending[1].message))
  /\ pc' = "returned"
  /\ UNCHANGED pending
  /\ PureUnchanged

\* version.bump(change): the fields of the receiver are readonly and bump
\* assigns none of them
ApplyBump ==
  /\ pc = "call" /\ pending[1].fn = "bump"
  /\ result' = Some(Bump(pending[1].version, pending[1].change))
  /\ pc' = "returned"
  /\ UNCHANGED pending
  /\ PureUnchanged

NextPure ==
  \/ ApplyMaxImpact
  \/ ApplyMessageImpact
  \/ ApplyBump

SpecPure == InitPure /\ [][NextPure]_vars

Returned(fn) == pc = "returned" /\ pending[1].fn = fn

\* the rearrangements of an array
Rearranged(a) ==
  {[i \in DOMAIN a |-> a[p[i]]] : p \in Permutations(DOMAIN a)}

\* C22: maxImpact returns none for an empty array and otherwise the largest
\* element under major > minor > patch > none; every rearrangement of the
\* array gives the same result, and so does the array with its none elements
\* removed or with a none element added at either end
C22_MaxImpactIsMaximum ==
  Returned("maxImpact") =>
    LET impacts == pending[1].impacts
        out == result[1]
    IN /\ impacts = <<>> => out = "none"
       /\ impacts # <<>> =>
            /\ out \in Range(impacts)
            /\ \A i \in DOMAIN impacts : ImpactRank(impacts[i]) <= ImpactRank(out)
       /\ \A r \in Rearranged(impacts) : MaxImpact(r) = out
       /\ MaxImpact(SelectSeq(impacts, LAMBDA x : x # "none")) = out
       /\ MaxImpact(Append(impacts, "none")) = out
       /\ MaxImpact(<<"none">> \o impacts) = out

\* C22 witness: the maximum stands last, after a smaller element and a none
C22_Witness ==
  /\ Returned("maxImpact")
  /\ pending[1].impacts = <<"patch", "none", "minor">>
  /\ result[1] = "minor"

\* the decompositions of a line into lowercase type (positions 1..n), optional
\* parenthesised scope (ending at position s; s = n when absent), optional
\* "!" (b = 1), colon and a rest holding a non-whitespace character
Decompositions(line) ==
  {d \in [n : 1..Len(line), s : 1..Len(line), b : {0, 1}] :
     /\ \A i \in 1..d.n : line[i] \in Lower
     /\ \/ d.s = d.n
        \/ /\ d.s >= d.n + 2
           /\ line[d.n + 1] = "(" /\ line[d.s] = ")"
           /\ \A i \in (d.n + 2)..(d.s - 1) : line[i] # ")"
     /\ d.b = 1 => (d.s + 1 <= Len(line) /\ line[d.s + 1] = "!")
     /\ d.s + d.b + 1 <= Len(line) /\ line[d.s + d.b + 1] = ":"
     /\ \E k \in (d.s + d.b + 2)..Len(line) : line[k] \notin Whitespace}

\* the first line of a message with the whitespace around it removed, found by
\* position: the part before the first line feed, between its first and last
\* non-whitespace characters
FirstLineTrimmed(message) ==
  LET feeds == {i \in DOMAIN message : message[i] = "\n"}
      end == IF feeds = {} THEN Len(message)
             ELSE (CHOOSE i \in feeds : \A j \in feeds : i <= j) - 1
      solid == {i \in 1..end : message[i] \notin Whitespace}
  IN IF solid = {} THEN <<>>
     ELSE SubSeq(message, CHOOSE i \in solid : \A j \in solid : i <= j,
                          CHOOSE i \in solid : \A j \in solid : i >= j)

\* the impact the precedence rules give a message
ClassifiedAs(message) ==
  LET line == FirstLineTrimmed(message)
      ds == Decompositions(line)
  IN IF \A i \in DOMAIN message : message[i] \in Whitespace THEN "none"
     ELSE IF \E i \in 1..(Len(message) - 15) :
               \/ SubSeq(message, i, i + 15) = BreakingChangeSpace
               \/ SubSeq(message, i, i + 15) = BreakingChangeDash
       THEN "major"
     ELSE IF ds = {} THEN "none"
     ELSE IF \E d \in ds : d.b = 1 THEN "major"
     ELSE IF \E d \in ds : SubSeq(line, 1, d.n) = <<"f","e","a","t">> THEN "minor"
     ELSE IF \E d \in ds : SubSeq(line, 1, d.n) = <<"f","i","x">> THEN "patch"
     ELSE "none"

\* C23: messageImpact follows the fixed precedence for every message: empty or
\* all whitespace gives none; else a literal BREAKING CHANGE: or
\* BREAKING-CHANGE: anywhere gives major; else a first line that is not
\* lowercase type, optional scope, optional "!", colon, non-whitespace gives
\* none; else "!" gives major, type feat minor, type fix patch, any other type
\* none
C23_MessageImpactPrecedence ==
  Returned("messageImpact") => result[1] = ClassifiedAs(pending[1].message)

\* C23 witness: a first line that is not conventional, with the marker in the
\* body, is major
C23_Witness ==
  /\ Returned("messageImpact")
  /\ Decompositions(FirstLineTrimmed(pending[1].message)) = {}
  /\ Includes(pending[1].message, BreakingChangeDash)
  /\ result[1] = "major"

\* C24: for every parsed Version v, bump(v, major) has core (major+1).0.0,
\* bump(v, minor) has core major.(minor+1).0, bump(v, patch) has core
\* major.minor.(patch+1) and bump(v, none) has the core of v; the prerelease
\* and build of the result are those of v, and v is left as it was
C24_BumpTouchesCoreOnly ==
  /\ [](Returned("bump") =>
          LET v == pending[1].version
              change == pending[1].change
              out == result[1]
          IN /\ change = "major" => out.base = <<v.base[1] + 1, 0, 0>>
             /\ change = "minor" => out.base = <<v.base[1], v.base[2] + 1, 0>>
             /\ change = "patch" => out.base = <<v.base[1], v.base[2], v.base[3] + 1>>
             /\ change = "none" => out.base = v.base
             /\ out.prerelease = v.prerelease
             /\ out.build = v.build)
  /\ [][(pc = "call" /\ pending[1].fn = "bump") => pending' = pending]_vars

\* C24 witness: a minor bump of 1.2.2-rc.1+7.1 gave 1.3.0-rc.1+7.1
C24_Witness ==
  /\ Returned("bump") /\ pending[1].change = "minor"
  /\ pending[1].version = [base |-> <<1, 2, 2>>, prerelease |-> <<"rc", "1">>,
                           build |-> <<"7", "1">>]
  /\ result[1] = [base |-> <<1, 3, 0>>, prerelease |-> <<"rc", "1">>,
                  build |-> <<"7", "1">>]

(***************************************************************************)
(* Claims about the early stop of the pull-request generator (checked      *)
(* under SpecPR).                                                          *)
(***************************************************************************)
\* the listing as the generator maps it
MappedListing == [i \in DOMAIN prListing |-> MapPullRequest(prListing[i])]

\* position of the first listed item merged strictly before the cutoff, 0
\* when there is none
FirstBeforeCutoff ==
  FirstWhere(MappedListing,
             LAMBDA pr : pr.mergedAt # NoDate /\ pr.mergedAt < gen.mergedSince)

\* C25: with a cutoff set, the generator yields the listed items that precede
\* the first item merged strictly before the cutoff (so an item merged exactly
\* at the cutoff is yielded), never that item nor a later one, and requests no
\* page after the page holding that item, also when the forge reported a
\* further page
C25_StopsAtFirstBeforeCutoff ==
  (gen.st # "none" /\ gen.type = "incoming" /\ gen.mergedSince # NoDate) =>
    LET k == FirstBeforeCutoff
        yielded == IF k = 0 THEN MappedListing ELSE SubSeq(MappedListing, 1, k - 1)
    IN /\ IsPrefix(collected, yielded)
       /\ k # 0 => Len(RequestsOfKind({"graphql"})) <= CeilDiv(k, PerPage)
       /\ pc = "collected" =>
            /\ collected = yielded
            /\ k # 0 => Len(RequestsOfKind({"graphql"})) = CeilDiv(k, PerPage)

\* C25 witness: the first page held an item merged exactly at the cutoff,
\* which was yielded, and then an item merged before it; the forge had
\* reported a further page, which was never requested
C25_Witness ==
  /\ pc = "collected" /\ gen.type = "incoming" /\ gen.mergedSince # NoDate
  /\ FirstBeforeCutoff = 2 /\ Len(prListing) > PerPage
  /\ gen.pageHasNext
  /\ Len(collected) = 1 /\ collected[1].mergedAt = gen.mergedSince
  /\ Len(RequestsOfKind({"graphql"})) = 1

\* C26: in a listing filtered by a cutoff, an item without a merge timestamp
\* is not yielded to the consumer and does not end the iteration: the
\* collection holds the items with a merge timestamp that precede the first
\* item merged strictly before the cutoff
C26_UnmergedSkipped ==
  (pc = "collected" /\ gen.type = "incoming" /\ gen.mergedSince # NoDate) =>
    LET k == FirstBeforeCutoff
        examined == IF k = 0 THEN MappedListing ELSE SubSeq(MappedListing, 1, k - 1)
    IN collected = SelectSeq(examined, LAMBDA pr : pr.mergedAt # NoDate)

(***************************************************************************)
(* The fetchers under a consumer that takes items one at a time and may    *)
(* leave its loop after any of them: for await over fetchReleases(context) *)
(* and over fetchPullRequests(context, params).                            *)
(***************************************************************************)
InitPages ==
  /\ NoForge
  /\ srcPos = 0 /\ srcDone = FALSE
  /\ cache = <<>> /\ sourceExhausted = FALSE
  /\ reqQ = <<>> /\ resumeQ = <<>> /\ pulls = 0
  /\ cur = [c \in Cursors |-> FreshCursor]
  /\ collected = <<>>
  /\ requests = <<>>
  /\ NoInvocation
  /\ \/ /\ srcItems \in {[i \in 1..n |-> WithId(OtherRelease, i)] : n \in 0..MaxListed}
        /\ prListing = <<>> /\ gen = IdleGen
        /\ pc = "iterate"
     \/ /\ srcItems = <<>>
        /\ \/ \E l \in MergedListings :
                /\ prListing = [i \in DOMAIN l |->
                                  PRNode(i, <<"x">>, "MERGED", l[i][1], l[i][2])]
                /\ gen = NewGen("incoming", "main", NoDate)
           \/ \E n \in 0..MaxPRs :
                /\ prListing = [i \in 1..n |-> PRNode(i, <<"x">>, "OPEN", NoDate, MaxTime)]
                /\ gen = NewGen("outgoing", "feat", NoDate)
        /\ pc = "collect"

\* for await (const release of fetchReleases(context)): the consumer asks for
\* the next release
ReleasesIterate ==
  /\ pc = "iterate"
  /\ LET n == ReleasesNext(relIdx) IN
       /\ HandleAfter(n)
       /\ IF n.item = None
            THEN /\ pc' = "collected"
                 /\ UNCHANGED <<collected, relIdx>>
            ELSE /\ collected' = Append(collected, n.item[1])
                 /\ relIdx' = relIdx + 1
                 /\ UNCHANGED pc
  /\ UNCHANGED <<cursorVars, forgeVars, prListing, gen, ctx, defaultTag, path, target, relCount,
                 lastDraft, lastRelease, lastVersion, featurePR, pending, result, thrown>>

\* break in the body of the consumer's loop, after an item was handed over:
\* the generator is returned from while it is suspended at its yield
ConsumerBreaks ==
  /\ \/ pc = "iterate" /\ collected # <<>>
     \/ pc = "collect" /\ gen.st = "page" /\ gen.i >= 1
  /\ pc' = "stopped"
  /\ gen' = IF gen.st = "none" THEN gen ELSE [gen EXCEPT !.st = "done"]
  /\ UNCHANGED <<cacheVars, cursorVars, forgeVars, prListing, collected, requests, orchVars>>

NextPages ==
  \/ ReleasesIterate
  \/ ConsumerBreaks
  \/ PRFetchPage
  \/ PRNextItem
  \/ PREndPage

SpecPages == InitPages /\ [][NextPages]_vars

\* the number of items the forge lists for the fetcher in use
Listed == IF gen.st = "none" THEN Len(srcItems) ELSE Len(prListing)

OutgoingQuery ==
  [kind |-> "graphql", baseRefName |-> <<>>, headRefName |-> <<ctx.branch>>,
   state |-> "OPEN", cursor |-> 0]

\* C28: on the feature path, when the outgoing listing of the current branch
\* gives no open pull request, the invocation ends with action none and null
\* lastDraft, lastRelease and lastVersion, and the outgoing query is its only
\* forge request: no release listing, no incoming query, no mutation
C28_NoOutgoingNoAction ==
  (path = "feature" /\ pc # "outgoing" /\ featurePR = None) =>
    /\ pc \in {"done", "failed"}
    /\ requests = <<OutgoingQuery>>
    /\ lastDraft = None /\ lastRelease = None /\ lastVersion = None
    /\ pc = "done" =>
         result = Some([action |-> "none", lastDraft |-> None, lastRelease |-> None,
                        lastVersion |-> None])

\* C28 witness: a feature-branch invocation ended with none after its one
\* query
C28_Witness ==
  /\ Finished /\ path = "feature" /\ featurePR = None
  /\ result[1].action = "none" /\ Len(requests) = 1

\* the queries for merged pull requests sent so far
IncomingQueries ==
  SelectSeq(requests, LAMBDA r : r.kind = "graphql" /\ r.state = "MERGED")

\* C29: on the feature path with an open outgoing pull request the target is
\* that pull request's base branch; findLast is run for the target and returns
\* the forge's first published release of the target, no draft is looked up;
\* the merged pull requests are queried for the target with the cutoff of that
\* release's publish time; the titles are the feature pull request's title
\* followed by the collected ones, and the impact is the largest over all
C29_FeaturePathUsesTarget ==
  /\ [](path = "feature" /\ featurePR # None =>
          /\ target = Some(featurePR[1].baseRefName)
          /\ pc # "findLastDraft" /\ lastDraft = None
          /\ lastRelease # None => lastRelease[1].targetCommitish = featurePR[1].baseRefName
          /\ \A i \in DOMAIN IncomingQueries :
               IncomingQueries[i].baseRefName = <<featurePR[1].baseRefName>>
          /\ gen.st # "none" =>
               /\ gen.type = "incoming"
               /\ gen.mergedSince = IF lastRelease = None THEN NoDate
                                    ELSE lastRelease[1].publishedAt
          /\ Finished =>
               /\ result[1].action = "version"
               /\ result[1].pullRequestTitles =
                    <<featurePR[1].title>> \o [i \in DOMAIN collected |-> collected[i].title]
               /\ result[1].versionIncrement = LargestImpact(result[1].pullRequestTitles)
               /\ result[1].lastRelease = lastRelease)
  /\ [][(path = "feature" /\ pc = "findLast" /\ pc' = "query") =>
          IF FirstPublished = 0 THEN lastRelease' = None
          ELSE SameRelease(lastRelease', FirstPublished)]_vars

\* C29 witness: the feature pull request's own title raised the impact above
\* that of the pull requests merged into its base branch since the last
\* release of that branch
C29_Witness ==
  /\ Finished /\ path = "feature" /\ featurePR # None
  /\ featurePR[1].baseRefName = BranchRel /\ lastRelease # None
  /\ collected # <<>>
  /\ \A i \in DOMAIN collected : ImpactRank(MessageImpact(collected[i].title)) <= 1
  /\ MessageImpact(featurePR[1].title) = "minor"
  /\ result[1].versionIncrement = "minor"

\* "v" followed by the core only
CoreTag(core) == [prefix |-> "v", parts |-> core, pre |-> <<>>, build |-> <<>>]

\* the tags and names sent with release-notes, create and update requests
SentTags ==
  {r.tag_name : r \in {q \in Range(requests) :
                         q.kind \in {"generateReleaseNotes", "createRelease"}}}
    \cup {r.name : r \in {q \in Range(requests) : q.kind = "createRelease"}}
    \cup {r.tag_name[1] : r \in {q \in Range(requests) : q.kind = "updateRelease"}}
    \cup {r.name : r \in {q \in Range(requests) : q.kind = "updateRelease"}}

\* C30: the version of the release path has an empty prerelease, also when the
\* last published tag carried prerelease components, and build
\* <<runNumber, runAttempt>>; the version of the feature path has the
\* sanitised current branch name as prerelease, beginning with the segment
\* "branch", and the same build; every tag and name sent to release-notes
\* generation, create and update is "v" followed by the core of the version
C30_VersionShape ==
  /\ \A t \in SentTags : t.prefix = "v" /\ t.pre = <<>> /\ t.build = <<>>
  /\ (Finished /\ result[1].action \in {"created", "updated"}) =>
       /\ result[1].version.prerelease = <<>>
       /\ result[1].version.build = <<ctx.runNumber, ctx.runAttempt>>
       /\ SentTags = {CoreTag(result[1].version.base)}
  /\ (Finished /\ result[1].action = "version") =>
       /\ result[1].version.prerelease = SanitiseBranchPrerelease(ctx.branch)
       /\ result[1].version.prerelease[1] = <<"b","r","a","n","c","h">>
       /\ ctx.branch = BranchFeat =>
            result[1].version.prerelease =
              <<<<"b","r","a","n","c","h">>, <<"f","e","a","t">>, <<"x">>>>
       /\ result[1].version.build = <<ctx.runNumber, ctx.runAttempt>>
       /\ SentTags = {}

\* C30 witness: a draft was updated on the release path after a last release
\* whose tag carried a prerelease component
C30_Witness ==
  /\ Finished /\ result[1].action = "updated"
  /\ lastVersion # None /\ lastVersion[1].prerelease = <<"rc">>
  /\ result[1].version.prerelease = <<>>
  /\ result[1].version.build = <<"7", "1">>
  /\ Cardinality(SentTags) = 1

(***************************************************************************)
(* Claims about performUpsert (checked under Spec).                        *)
(***************************************************************************)
\* C31: an update request carries the id, target branch, draft flag (true)
\* and prerelease flag of the draft that findLastDraft returned; only name,
\* tag and body are set anew, so an update never publishes the draft and never
\* moves it to another branch
C31_UpdateKeepsDraftFrame ==
  \A i \in DOMAIN Updates :
    /\ lastDraft # None
    /\ Updates[i].release_id = lastDraft[1].id
    /\ Updates[i].target_commitish = lastDraft[1].targetCommitish
    /\ Updates[i].target_commitish = ctx.branch
    /\ Updates[i].draft = lastDraft[1].draft /\ Updates[i].draft
    /\ Updates[i].prerelease = lastDraft[1].prerelease

\* C31 witness: the draft with id 2 of a listing was updated in place
C31_Witness ==
  /\ Finished /\ result[1].action = "updated"
  /\ lastDraft[1].id = 2 /\ Updates[1].release_id = 2
  /\ Updates[1].draft /\ result[1].release.draft
  /\ Updates[1].name # lastDraft[1].name

Notes == RequestsOfKind({"generateReleaseNotes"})

\* C32: an update is sent only after a release-notes request was answered;
\* its body is the notes the forge returned and its tag the one the notes were
\* asked for; the notes request names a previous tag exactly when a last
\* published release exists, and then that release's tag; a rejected notes
\* request is followed by no update; the create path sends no notes request
C32_NotesBeforeUpdate ==
  /\ [](/\ Len(Notes) <= 1
        /\ \A i \in DOMAIN Notes :
             /\ lastDraft # None
             /\ Notes[i].previous_tag_name =
                  IF lastRelease # None THEN lastRelease[1].tagName ELSE None
             /\ lastRelease # None <=> Notes[i].previous_tag_name # None
             /\ Notes[i].target_commitish = ctx.branch
        /\ \A j \in DOMAIN requests :
             requests[j].kind = "updateRelease" =>
               /\ j > 1 /\ requests[j - 1].kind = "generateReleaseNotes"
               /\ requests[j].tag_name = Some(requests[j - 1].tag_name)
        /\ (ForgeFailure /\ requests[Len(requests)].kind = "generateReleaseNotes")
             => Updates = <<>>
        /\ Creates # <<>> => Notes = <<>>)
  /\ [][(pc = "update" /\ requests' # requests /\ pc' = "done") =>
          /\ requests' = Append(requests, requests'[Len(requests')])
          /\ requests'[Len(requests')].kind = "updateRelease"
          /\ requests'[Len(requests')].body = pending[1].body]_vars

\* C32 witness: notes were asked for with the last release's tag as previous
\* tag, the forge answered "notes B", and the update carried that body
C32_Witness ==
  /\ Finished /\ result[1].action = "updated"
  /\ lastRelease # None /\ Notes[1].previous_tag_name = lastRelease[1].tagName
  /\ Updates[1].body = "notes B"
  /\ result[1].release.body = "notes B"

\* C33: on the release path with a published release, at least one pull
\* request collected and every collected title of impact none, the invocation
\* still creates or updates a draft, and the version's core is the core of the
\* last published release
C33_NoImpactStillUpserts ==
  (/\ Finished /\ path = "release" /\ lastRelease # None /\ collected # <<>>
   /\ \A i \in DOMAIN collected : MessageImpact(collected[i].title) = "none") =>
    /\ result[1].action \in {"created", "updated"}
    /\ result[1].versionIncrement = "none"
    /\ result[1].version.base = lastRelease[1].tagName[1].parts
    /\ Len(Mutations) = 1
    /\ SentTags = {CoreTag(lastRelease[1].tagName[1].parts)}

\* C33 witness: one chore pull request since v1.2.3 gave a draft for 1.2.3
C33_Witness ==
  /\ Finished /\ path = "release" /\ lastRelease # None
  /\ Len(collected) = 1 /\ collected[1].title = TitleChore
  /\ result[1].action = "created"
  /\ result[1].version.base = <<1, 2, 3>>

(***************************************************************************)
(* Claims about the bound of the lookups (checked under SpecFind).         *)
(***************************************************************************)
\* C34 as stated: find, findLast and findLastDraft each examine at most 5P
\* items and cause at most 5 page requests, whatever the listing holds
C34_EveryLookupBounded ==
  /\ srcPos <= MAX_PAGES * PerPage
  /\ Len(ListPages) <= MAX_PAGES

\* position of the item that ends findLastDraft: the first draft of the
\* branch or the first non-draft, whichever comes first, else the listing's end
DraftDecider ==
  LET S == {i \in DOMAIN srcItems :
              \/ ~srcItems[i].draft
              \/ (~srcItems[i].prerelease /\ srcItems[i].target_commitish = target[1])}
  IN IF S = {} THEN Len(srcItems) ELSE CHOOSE i \in S : \A j \in S : i <= j

\* C34 amended: find and findLast examine at most 5P items and cause at most 5
\* page requests, returning null beyond; findLastDraft has no such bound: it
\* examines the items up to the first draft of the branch or the first
\* non-draft and requests every page holding them
C34_FindBoundedDraftLookupNot ==
  /\ pc \in {"lookupLast", "lastLookedUp"} =>
       /\ srcPos <= MAX_PAGES * PerPage
       /\ relCount <= MAX_PAGES * PerPage
       /\ Len(ListPages) <= MAX_PAGES
       /\ (pc = "lastLookedUp" /\ FirstPublished \notin 1..(MAX_PAGES * PerPage))
            => lastRelease = None
  /\ pc \in {"lookupDraft", "draftLookedUp"} =>
       /\ srcPos <= DraftDecider
       /\ pc = "draftLookedUp" =>
            /\ srcPos = DraftDecider
            /\ Len(ListPages) = IF DraftDecider = 0 THEN 1
                                ELSE CeilDiv(DraftDecider, PerPage)

\* C34 witness: behind 5P drafts of another branch findLastDraft found the
\* draft of the branch with a sixth page request
C34_Witness ==
  /\ pc = "draftLookedUp"
  /\ DraftDecider = MAX_PAGES * PerPage + 1
  /\ lastDraft # None /\ lastDraft[1].id = MAX_PAGES * PerPage + 1
  /\ Len(ListPages) = MAX_PAGES + 1

(***************************************************************************)
(* Claims about exhaustion after a failed pull (checked under SpecFail).   *)
(***************************************************************************)
\* C36: whenever sourceExhausted is true the cache holds every item of the
\* producer's sequence, also when a failed pull was followed by a retry from a
\* later iteration
C36_ExhaustedMeansComplete == sourceExhausted => cache = srcItems

(***************************************************************************)
(* A Releases handle used more than once: findLast(target) called after    *)
(* findLastDraft, find or an iteration, partial or full, ran on the handle *)
(***************************************************************************)
InitReuse ==
  /\ NoForge
  /\ srcItems \in ReleaseListings \cup LongListings \cup DraftListings
  /\ srcPos = 0 /\ srcDone = FALSE
  /\ cache = <<>> /\ sourceExhausted = FALSE
  /\ reqQ = <<>> /\ resumeQ = <<>> /\ pulls = 0
  /\ cur = [c \in Cursors |-> FreshCursor]
  /\ prListing = <<>> /\ gen = IdleGen /\ collected = <<>>
  /\ requests = <<>>
  /\ ctx = None /\ defaultTag = None /\ path = "none"
  /\ target = Some(BranchMain)
  /\ relIdx = 0 /\ relCount = 0 /\ relPages = 0
  /\ lastDraft = None /\ lastRelease = None /\ lastVersion = None
  /\ featurePR = None /\ pending = None /\ result = None /\ thrown = None
  /\ pc \in {"lookupDraft", "lookupLast", "iterate"}

\* releases.findLast(target) on the handle an earlier lookup or iteration has
\* used: find starts a new iteration of this.source with count = 0
FindLastAgain ==
  /\ pc \in {"draftLookedUp", "lastLookedUp", "stopped", "collected"}
  /\ pc' = "lookupLast"
  /\ relIdx' = 0
  /\ relCount' = 0
  /\ lastRelease' = None
  /\ UNCHANGED <<cacheVars, cursorVars, forgeVars, prVars, requests, ctx, defaultTag, path, target,
                 relPages, lastDraft, lastVersion, featurePR, pending, result, thrown>>

NextReuse ==
  \/ LookupDraftStep
  \/ LookupLastStep
  \/ ReleasesIterate
  \/ ConsumerBreaks
  \/ FindLastAgain

SpecReuse == InitReuse /\ [][NextReuse]_vars

\* C37: findLast(target) returns the same release whatever ran on the handle
\* before: the result is the one a fresh handle over the same listing gives,
\* the first published non-prerelease release of the target among the first
\* 5P listed items and null otherwise, also when the cache already holds
\* more than 5P items
C37_FindLastIgnoresCacheState ==
  pc = "lastLookedUp" =>
    /\ IF FirstPublished \in 1..(MAX_PAGES * PerPage)
         THEN SameRelease(lastRelease, FirstPublished)
         ELSE lastRelease = None
    /\ relIdx + 1 <= MAX_PAGES * PerPage

\* C37 witness: the cache held the release at position 5P + 1 before the
\* lookup began, which read 5P items from the cache and returned null
C37_Witness ==
  /\ pc = "lastLookedUp"
  /\ FirstPublished = MAX_PAGES * PerPage + 1
  /\ Len(cache) >= FirstPublished
  /\ relIdx + 1 = MAX_PAGES * PerPage
  /\ lastRelease = None

(***************************************************************************)
(* Full iterations of the GraphQL fetchers (pull requests, tags, commits)  *)
(* against a forge that may answer one cursor with an empty page reporting *)
(* hasNextPage = true.                                                     *)
(***************************************************************************)
\* most page requests kept in the request log during a full iteration
MaxLogged == 4

\* the forge's answer to a paged query: the page after the cursor, or, at the
\* cursor of its fault, no nodes, hasNextPage = true and endCursor = null
ForgeAnswer(listing, cursor) ==
  IF forgeFault = Some(cursor)
    THEN [nodes |-> <<>>, hasNextPage |-> TRUE, endCursor |-> 0]
    ELSE ForgePage(listing, cursor)

\* fetchTags / fetchCommits: the generator frame, let cursor = null and
\* let hasNextPage = true
NewListGen(type) ==
  [st |-> "request", type |-> type, cursor |-> 0, hasNextPage |-> TRUE,
   page |-> <<>>, pageHasNext |-> FALSE, pageEnd |-> 0, i |-> 0]

\* the request a generator sends for its next page
PageRequest(g) ==
  IF g.type \in {"incoming", "outgoing"}
    THEN GraphqlRequest(g)
    ELSE [kind |-> "graphql", query |-> g.type, cursor |-> g.cursor]

\* while (hasNextPage) { const response = await context.octokit.graphql(...)
\* of the three generators; the log keeps the first MaxLogged requests
GraphqlFetchPage ==
  /\ pc \in {"collect", "iterateTags", "iterateCommits"}
  /\ gen.st = "request"
  /\ LET response == ForgeAnswer(prListing, gen.cursor) IN
       gen' = [gen EXCEPT !.st = "page", !.page = response.nodes, !.i = 0,
                          !.pageHasNext = response.hasNextPage,
                          !.pageEnd = response.endCursor]
  /\ requests' = IF Len(requests) < MaxLogged
                   THEN Append(requests, PageRequest(gen)) ELSE requests
  /\ UNCHANGED <<prListing, collected, pc>>
  /\ UNCHANGED <<cacheVars, cursorVars, forgeVars, orchVars>>

\* createTagsGenerator after the for loop over the page:
\* hasNextPage = pageInfo.hasNextPage; cursor = pageInfo.endCursor
AfterTagsPage(g) ==
  [g EXCEPT !.hasNextPage = g.pageHasNext,
            !.cursor = g.pageEnd,
            !.st = IF g.pageHasNext THEN "request" ELSE "done"]

\* createCommitsGenerator after the for loop over the page: the same, then
\* if (!hasNextPage || commits.length === 0) break
AfterCommitsPage(g) ==
  [g EXCEPT !.hasNextPage = g.pageHasNext,
            !.cursor = g.pageEnd,
            !.st = IF ~g.pageHasNext \/ Len(g.page) = 0 THEN "done" ELSE "request"]

\* for (const node of nodes) yield mapTag(node): the consumer takes one tag
TagsNextItem ==
  /\ pc = "iterateTags"
  /\ gen.st = "page"
  /\ gen.i < Len(gen.page)
  /\ gen' = [gen EXCEPT !.i = @ + 1]
  /\ UNCHANGED <<prListing, collected, requests, pc>>
  /\ UNCHANGED <<cacheVars, cursorVars, forgeVars, orchVars>>

\* the page of tags is used up
TagsEndPage ==
  /\ pc = "iterateTags"
  /\ gen.st = "page"
  /\ gen.i = Len(gen.page)
  /\ gen' = AfterTagsPage(gen)
  /\ pc' = IF gen'.st = "done" THEN "collected" ELSE pc
  /\ UNCHANGED <<prListing, collected, requests>>
  /\ UNCHANGED <<cacheVars, cursorVars, forgeVars, orchVars>>

\* for (const commit of commits) yield mapCommit(commit): the consumer takes
\* one commit
CommitsNextItem ==
  /\ pc = "iterateCommits"
  /\ gen.st = "page"
  /\ gen.i < Len(gen.page)
  /\ gen' = [gen EXCEPT !.i = @ + 1]
  /\ UNCHANGED <<prListing, collected, requests, pc>>
  /\ UNCHANGED <<cacheVars, cursorVars, forgeVars, orchVars>>

\* the page of commits is used up
CommitsEndPage ==
  /\ pc = "iterateCommits"
  /\ gen.st = "page"
  /\ gen.i = Len(gen.page)
  /\ gen' = AfterCommitsPage(gen)
  /\ pc' = IF gen'.st = "done" THEN "collected" ELSE pc
  /\ UNCHANGED <<prListing, collected, requests>>
  /\ UNCHANGED <<cacheVars, cursorVars, forgeVars, orchVars>>

\* the cursors at which the forge may be at fault
FaultCursors == {None} \cup {Some(c) : c \in 0..MaxPRs}

InitDrain ==
  /\ srcItems = <<>> /\ srcPos = 0 /\ srcDone = FALSE
  /\ cache = <<>> /\ sourceExhausted = FALSE
  /\ reqQ = <<>> /\ resumeQ = <<>> /\ pulls = 0
  /\ cur = [c \in Cursors |-> FreshCursor]
  /\ collected = <<>>
  /\ requests = <<>>
  /\ NoInvocation
  /\ forgeFault \in FaultCursors
  /\ forgeReleases = <<>> /\ inv = <<>>
  /\ \/ \E l \in MergedListings, since \in {NoDate} \cup Times :
          /\ prListing = [i \in DOMAIN l |-> PRNode(i, <<"x">>, "MERGED", l[i][1], l[i][2])]
          /\ gen = NewGen("incoming", "main", since)
          /\ pc = "collect"
     \/ \E n \in 0..MaxPRs :
          /\ prListing = [i \in 1..n |-> [name |-> i]]
          /\ gen = NewListGen("tags")
          /\ pc = "iterateTags"
     \/ \E n \in 0..MaxPRs :
          /\ prListing = [i \in 1..n |-> [oid |-> i]]
          /\ gen = NewListGen("commits")
          /\ pc = "iterateCommits"

NextDrain ==
  \/ GraphqlFetchPage
  \/ PRNextItem
  \/ PREndPage
  \/ TagsNextItem
  \/ TagsEndPage
  \/ CommitsNextItem
  \/ CommitsEndPage

SpecDrain == InitDrain /\ [][NextDrain]_vars

\* the generator resumes when the forge has answered, and the consumer of a
\* full iteration asks for the next item of a page it was handed
SpecDrainFair == SpecDrain /\ WF_vars(NextDrain)

\* C35: a full iteration of any fetcher ends, whatever finite listing the
\* forge holds and also when the forge answers with an empty page that
\* reports hasNextPage = true
C35_EveryFetcherTerminates == <>(pc = "collected")

\* the iterations of the pull-request fetcher and of the commit fetcher end
GuardedFetchersTerminate == gen.type # "tags" => <>(pc = "collected")

\* the tag fetcher ends when the forge never answers with such a page
TagsTerminateWithoutFault ==
  (gen.type = "tags" /\ forgeFault = None) => <>(pc = "collected")

(***************************************************************************)
(* Invocations of performAction on one release branch that share a forge:  *)
(* one after the other, or interleaved at their forge requests.            *)
(***************************************************************************)
\* longest release listing the forge holds before the first invocation,
\* apart from the one that fills the search window
MaxShared == 2

\* the invocations: a workflow run and the one started next
Invocations == {1, 2}

\* the Context of invocation i: a workflow run of its own on the branch
InvocationContext(i) ==
  [branch |-> BranchMain, releaseBranches |-> {BranchMain},
   runNumber |-> IF i = 1 THEN "7" ELSE "8", runAttempt |-> "1"]

\* performAction not yet called
IdleInvocation(i) ==
  [pc |-> "idle", ctx |-> InvocationContext(i), after |-> {},
   cache |-> <<>>, pages |-> 0, hasNext |-> FALSE,
   lastDraft |-> None, lastRelease |-> None, lastVersion |-> None,
   collected |-> <<>>, pending |-> None, result |-> None, thrown |-> None]

\* the listReleases page the forge answers with now, added to the handle's cache
FetchedPage(me) ==
  LET from == me.pages * PerPage
      to == Min(from + PerPage, Len(forgeReleases))
  IN [me EXCEPT !.cache = me.cache \o [k \in 1..(to - from) |->
                                          MapRelease(forgeReleases[from + k])],
                !.pages = me.pages + 1,
                !.hasNext = to < Len(forgeReleases)]

\* the loop of findLastDraft over the items the handle holds, from item k
RECURSIVE DraftLookupOver(_, _, _)
DraftLookupOver(items, k, targetCommitish) ==
  IF k > Len(items) THEN [decided |-> FALSE, found |-> None]
  ELSE LET look == DraftLookup([item |-> Some(items[k])], targetCommitish) IN
         IF look.decided THEN look ELSE DraftLookupOver(items, k + 1, targetCommitish)

\* the loop of find, called by findLast, over the items the handle holds
RECURSIVE FindLookupOver(_, _, _)
FindLookupOver(items, k, targetCommitish) ==
  IF k > Len(items) THEN [decided |-> FALSE, found |-> None]
  ELSE LET look == FindLookup([item |-> Some(items[k])], k - 1, targetCommitish) IN
         IF look.decided THEN look ELSE FindLookupOver(items, k + 1, targetCommitish)

\* collect() of the incoming pull requests: the items the generator yields
\* before its early stop
RECURSIVE CollectFrom(_, _, _)
CollectFrom(listing, k, since) ==
  IF k > Len(listing) THEN <<>>
  ELSE LET pullRequest == MapPullRequest(listing[k]) IN
         IF StopsAt(pullRequest, since) THEN <<>>
         ELSE <<pullRequest>> \o CollectFrom(listing, k + 1, since)

\* the forge's response to createRelease: the forge assigns the id
ForgeCreates(request) ==
  [CreatedReleaseData(request) EXCEPT !.id = Len(forgeReleases) + 1]

SharedUnchanged ==
  UNCHANGED <<cacheVars, cursorVars, prVars, requests, pc, orchVars, forgeFault>>

\* performAction(context, defaultTag) is called on a release branch:
\* fetchReleases(context)
InvStart(i) ==
  /\ inv[i].pc = "idle"
  /\ inv' = [inv EXCEPT ![i].pc = "findLastDraft",
                        ![i].after = {j \in Invocations : inv[j].pc = "done"}]
  /\ UNCHANGED forgeReleases
  /\ SharedUnchanged

\* await releases.findLastDraft(context.branch): it returns, or the handle
\* requests the next page of the listing
InvFindLastDraft(i) ==
  /\ inv[i].pc = "findLastDraft"
  /\ LET me == inv[i]
         look == DraftLookupOver(me.cache, 1, me.ctx.branch)
     IN IF look.decided \/ (me.pages > 0 /\ ~me.hasNext)
          THEN inv' = [inv EXCEPT ![i].lastDraft = look.found, ![i].pc = "findLast"]
          ELSE inv' = [inv EXCEPT ![i] = FetchedPage(me)]
  /\ UNCHANGED forgeReleases
  /\ SharedUnchanged

\* await releases.findLast(context.branch) and the parse of its tag
InvFindLast(i) ==
  /\ inv[i].pc = "findLast"
  /\ LET me == inv[i]
         look == FindLookupOver(me.cache, 1, me.ctx.branch)
         release == look.found
     IN IF look.decided \/ (me.pages > 0 /\ ~me.hasNext)
          THEN IF LastTagInvalid(release)
                 THEN inv' = [inv EXCEPT ![i].lastRelease = release,
                                         ![i].thrown = InvalidVersion(release[1].tagName[1]),
                                         ![i].pc = "failed"]
                 ELSE inv' = [inv EXCEPT
                        ![i].lastRelease = release,
                        ![i].lastVersion =
                           IF release # None /\ release[1].tagName # None
                             THEN Some(ParseVersion(release[1].tagName[1])) ELSE None,
                        ![i].pc = "collect"]
          ELSE inv' = [inv EXCEPT ![i] = FetchedPage(me)]
  /\ UNCHANGED forgeReleases
  /\ SharedUnchanged

\* await fetchPullRequests(context, {incoming, mergedSince}).collect()
InvCollect(i) ==
  /\ inv[i].pc = "collect"
  /\ inv' = [inv EXCEPT ![i].collected =
                           CollectFrom(prListing, 1, MergedSince(inv[i].lastRelease)),
                        ![i].pc = "collected"]
  /\ UNCHANGED forgeReleases
  /\ SharedUnchanged

\* after collect(): nothing to do, or the version is inferred and
\* performUpsert sends its first request
InvUpsert(i) ==
  /\ inv[i].pc = "collected"
  /\ LET me == inv[i] IN
     IF NothingMerged(me.collected)
       THEN /\ inv' = [inv EXCEPT
                 ![i].result = Some([action |-> "none", lastRelease |-> me.lastRelease,
                                     lastVersion |-> me.lastVersion,
                                     lastDraft |-> me.lastDraft]),
                 ![i].pc = "done"]
            /\ UNCHANGED forgeReleases
     ELSE IF DefaultTagInvalid(me.lastVersion, defaultTag[1])
       THEN /\ inv' = [inv EXCEPT ![i].thrown = InvalidVersion(defaultTag[1]),
                                  ![i].pc = "failed"]
            /\ UNCHANGED forgeReleases
     ELSE LET versionIncrement == InferImpactFromPRs(me.collected)
              nextVersion == InferNextVersion(me.lastVersion, versionIncrement, me.ctx,
                                              defaultTag[1], None)
              tag == VersionTag(nextVersion)
              create == CreateRequest(tag, me.ctx.branch, tag)
          IN IF UpsertUpdates(me.lastDraft)
               THEN /\ \E body \in NotesBodies :
                         inv' = [inv EXCEPT
                           ![i].pending = Some([versionIncrement |-> versionIncrement,
                                                nextVersion |-> nextVersion,
                                                body |-> body]),
                           ![i].pc = "update"]
                    /\ UNCHANGED forgeReleases
               ELSE /\ forgeReleases' = <<ForgeCreates(create)>> \o forgeReleases
                    /\ inv' = [inv EXCEPT
                         ![i].result =
                            Some([action |-> "created", lastDraft |-> me.lastDraft,
                                  lastRelease |-> me.lastRelease,
                                  lastVersion |-> me.lastVersion,
                                  pullRequestTitles |->
                                    [k \in DOMAIN me.collected |-> me.collected[k].title],
                                  versionIncrement |-> versionIncrement,
                                  version |-> nextVersion,
                                  release |-> MapRelease(ForgeCreates(create))]),
                         ![i].pc = "done"]
  /\ SharedUnchanged

\* performUpsert after the release notes arrived: updateRelease
InvUpdate(i) ==
  /\ inv[i].pc = "update"
  /\ LET me == inv[i]
         tag == VersionTag(me.pending[1].nextVersion)
         update == UpdateRequest([me.lastDraft[1] EXCEPT !.name = tag,
                                                         !.tagName = Some(tag),
                                                         !.body = me.pending[1].body])
     IN /\ forgeReleases' = [k \in DOMAIN forgeReleases |->
                               IF forgeReleases[k].id = update.release_id
                                 THEN UpdatedReleaseData(update) ELSE forgeReleases[k]]
        /\ inv' = [inv EXCEPT
             ![i].result =
                Some([action |-> "updated", lastDraft |-> me.lastDraft,
                      lastRelease |-> me.lastRelease, lastVersion |-> me.lastVersion,
                      pullRequestTitles |->
                        [k \in DOMAIN me.collected |-> me.collected[k].title],
                      versionIncrement |-> me.pending[1].versionIncrement,
                      version |-> me.pending[1].nextVersion,
                      release |-> MapRelease(UpdatedReleaseData(update))]),
             ![i].pending = None,
             ![i].pc = "done"]
  /\ SharedUnchanged

\* what the forge holds before the first invocation: no draft of the branch
SharedKinds ==
  {SearchedRelease, OtherRelease, OtherDraft}

\* the listings of up to MaxShared such releases, and the listing in which
\* the last release of the branch is the last item of the search window
SharedListings ==
  {[k \in DOMAIN l |-> WithId(l[k], k)] :
     l \in UNION {[1..n -> SharedKinds] : n \in 0..MaxShared}}
  \cup
  {[k \in 1..MaxReleasesSearched |->
      WithId(IF k = MaxReleasesSearched THEN SearchedRelease ELSE OtherRelease, k)]}

\* the pull requests merged into the branch, the same for every invocation
SharedMerged ==
  {[k \in DOMAIN l |->
      [number |-> k, title |-> l[k][1], baseRefName |-> BranchMain, state |-> "MERGED",
       mergedAt |-> l[k][2], updatedAt |-> 3 + Len(l) - k]] :
     l \in UNION {[1..n -> {TitleFeat, TitleBreaking} \X {1, 3}] : n \in 0..MaxMerged}}

InitShared ==
  /\ srcItems = <<>> /\ srcPos = 0 /\ srcDone = FALSE
  /\ cache = <<>> /\ sourceExhausted = FALSE
  /\ reqQ = <<>> /\ resumeQ = <<>> /\ pulls = 0
  /\ cur = [c \in Cursors |-> FreshCursor]
  /\ prListing \in SharedMerged
  /\ gen = IdleGen /\ collected = <<>>
  /\ requests = <<>>
  /\ ctx = None /\ defaultTag = Some(VersionString("v", <<0, 1, 0>>, <<>>, <<>>))
  /\ path = "release" /\ target = Some(BranchMain)
  /\ relIdx = 0 /\ relCount = 0 /\ relPages = 0
  /\ lastDraft = None /\ lastRelease = None /\ lastVersion = None
  /\ featurePR = None /\ pending = None /\ result = None /\ thrown = None
  /\ forgeFault = None
  /\ forgeReleases \in SharedListings
  /\ inv = [i \in Invocations |-> IdleInvocation(i)]
  /\ pc = "shared"

InvStarts == \E i \in Invocations : InvStart(i)
InvFindsLastDraft == \E i \in Invocations : InvFindLastDraft(i)
InvFindsLast == \E i \in Invocations : InvFindLast(i)
InvCollects == \E i \in Invocations : InvCollect(i)
InvUpserts == \E i \in Invocations : InvUpsert(i)
InvUpdates == \E i \in Invocations : InvUpdate(i)

NextShared ==
  \/ InvStarts
  \/ InvFindsLastDraft
  \/ InvFindsLast
  \/ InvCollects
  \/ InvUpserts
  \/ InvUpdates

SpecShared == InitShared /\ [][NextShared]_vars

\* the drafts of the branch the forge holds
BranchDrafts ==
  {k \in DOMAIN forgeReleases :
     /\ forgeReleases[k].draft
     /\ forgeReleases[k].target_commitish = BranchMain}

AllDone == \A i \in Invocations : inv[i].pc \in {"done", "failed"}

\* C39: whatever the interleaving of the forge requests of two invocations on
\* the same release branch, the forge holds at most one draft of the branch
\* afterwards
C39_AtMostOneDraft == AllDone => Cardinality(BranchDrafts) <= 1

\* C38: when an invocation has returned created and the next invocation ran
\* after it, with the new draft listed first and the same pull requests
\* merged, that invocation returns updated for the same release id and the
\* same version, and the forge holds one draft of the branch
C38_RerunUpdatesSameDraft ==
  \A i, j \in Invocations :
    (/\ inv[i].pc = "done" /\ j \in inv[i].after
     /\ inv[j].result[1].action = "created") =>
       /\ inv[i].result[1].action = "updated"
       /\ inv[i].result[1].release.id = inv[j].result[1].release.id
       /\ inv[i].result[1].version.base = inv[j].result[1].version.base
       /\ inv[i].result[1].version.prerelease = inv[j].result[1].version.prerelease
       /\ Cardinality(BranchDrafts) = 1

\* the same for forges on which the search window of findLast is not filled
RerunUpdatesWithinWindow ==
  Len(forgeReleases) <= MaxReleasesSearched => C38_RerunUpdatesSameDraft

====
